---- MODULE Spec2Model ----
(***************************************************************************)
(* Model of the CSV ingestion pipeline of pitch_data_upload.py: the player *)
(* matcher, the pitch quality validator and the session/grouping           *)
(* orchestrator (process_csv / process_pitcher_data) driven by the upload  *)
(* page.                                                                   *)
(*                                                                         *)
(* Text is modelled as sequences of one-character strings, so that         *)
(* lower(), strip() and the substring test "a in b" are computed.          *)
(***************************************************************************)
EXTENDS Integers, Sequences, FiniteSets, TLC

VARIABLES
    call,       \* arguments of the call in progress (a record)
    ret,        \* return value of a pure function, <<>> before it returns
    pc,         \* position of the program
    df,         \* the uploaded file: [columns, rows]
    db,         \* the store: [players, sessions, pitches], in insertion order
    stats,      \* stats of process_csv
    loop,       \* loop variables of process_csv and process_pitcher_data
    session_state   \* st.session_state of the upload page

vars == <<call, ret, pc, df, db, stats, loop, session_state>>

\* Python's None, one per type of value so that equality stays well-typed
NULL == "None"                  \* an absent scalar (external ID, date, field)
NoText == <<"None">>            \* an absent text (names are character sequences)
NoInfo == [method |-> "None"]   \* an absent match_info
NoId == 0                       \* an absent player_id / session_id (ids start at 1)

\* st.session_state as main() initialises it on the first run of the page.
\* st.session_state.df is the variable df (NoFile when it is None); a summary
\* that is None is the empty sequence
NoSession ==
    [uploaded_file |-> NULL, detected_source |-> NULL,
     upload_mode_selected |-> FALSE, bulk_mode |-> FALSE,
     upload_complete |-> FALSE, upload_summary |-> <<>>]

\* values of the upload's variables while a pure function is checked on its own
NoFile == [columns |-> {}, rows |-> <<>>]
\* the tables of the store, and the number of INSERTs into pitches that a
\* conn.commit() has made durable
EmptyDb == [players |-> <<>>, sessions |-> <<>>, pitches |-> <<>>, committed |-> 0]
NoStats == [inserted |-> 0, skipped |-> 0, players_created |-> 0, sessions_created |-> 0,
            players_processed |-> <<>>, errors |-> <<>>]
NoLoop == [groups |-> <<>>, dates |-> <<>>, rows |-> <<>>]

------------------------------------------------------------------------------
(* Bounds of the model *)

MaxRoster == 3        \* players in a roster handed to the matcher
MaxRows == 3          \* rows of a file, of any kind (MaxRows + 1 when no row raises)
MaxBatchRows == 12    \* rows of a frame handed to process_pitcher_data directly

------------------------------------------------------------------------------
(* Text helpers: str.lower(), str.strip(), "a in b", f"{a} {b}" *)

LowerChar(c) ==
    CASE c = "A" -> "a"
      [] c = "S" -> "s"
      [] c = "T" -> "t"
      [] OTHER -> c

Lower(s) == [i \in 1..Len(s) |-> LowerChar(s[i])]

RECURSIVE LStrip(_)
LStrip(s) == IF s # <<>> /\ Head(s) = " " THEN LStrip(Tail(s)) ELSE s

RECURSIVE RStrip(_)
RStrip(s) ==
    IF s # <<>> /\ s[Len(s)] = " " THEN RStrip(SubSeq(s, 1, Len(s) - 1)) ELSE s

Strip(s) == RStrip(LStrip(s))

\* Python's "a in b" on strings: a occurs in b as a contiguous substring
IsSubstr(a, b) ==
    \E i \in 0..(Len(b) - Len(a)) : SubSeq(b, i + 1, i + Len(a)) = a

SpaceJoin(a, b) == a \o <<" ">> \o b

\* the decimal digit a character stands for, -1 for any other character
DigitOf(c) ==
    CASE c = "0" -> 0 [] c = "1" -> 1 [] c = "2" -> 2 [] c = "3" -> 3 [] c = "4" -> 4
      [] c = "5" -> 5 [] c = "6" -> 6 [] c = "7" -> 7 [] c = "8" -> 8 [] c = "9" -> 9
      [] OTHER -> -1

IsDigits(t) == t # <<>> /\ \A i \in DOMAIN t : DigitOf(t[i]) >= 0

RECURSIVE DigitsValue(_)
DigitsValue(t) ==
    IF t = <<>> THEN 0 ELSE 10 * DigitsValue(SubSeq(t, 1, Len(t) - 1)) + DigitOf(t[Len(t)])

DigitChar(d) ==
    CASE d = 0 -> "0" [] d = 1 -> "1" [] d = 2 -> "2" [] d = 3 -> "3" [] d = 4 -> "4"
      [] d = 5 -> "5" [] d = 6 -> "6" [] d = 7 -> "7" [] d = 8 -> "8" [] d = 9 -> "9"

\* str(n) of a natural number
RECURSIVE Decimal(_)
Decimal(n) == IF n < 10 THEN <<DigitChar(n)>> ELSE Decimal(n \div 10) \o <<DigitChar(n % 10)>>

\* the text without a leading sign, and -1 for a leading minus sign
Unsigned(t) == IF t # <<>> /\ t[1] \in {"-", "+"} THEN Tail(t) ELSE t
SignOf(t) == IF t # <<>> /\ t[1] = "-" THEN -1 ELSE 1

\* int(t): white space around, an optional sign, digits; ok is FALSE where
\* int raises ValueError
ParseInt(t) ==
    LET u == Strip(t)
    IN  IF IsDigits(Unsigned(u)) THEN [ok |-> TRUE, val |-> SignOf(u) * DigitsValue(Unsigned(u))]
        ELSE [ok |-> FALSE, val |-> 0]

\* float(t) on the decimal texts whose value is a multiple of 1/2: white space
\* around, an optional sign, digits, and optionally a point followed by nothing,
\* 0 or 5; twice is two times the value, ok is FALSE where float raises
\* ValueError (any other text of the model)
ParseFloat(t) ==
    LET u == Unsigned(Strip(t))
        dot == {i \in DOMAIN u : u[i] = "."}
        whole == IF dot = {} THEN u ELSE SubSeq(u, 1, (CHOOSE i \in dot : TRUE) - 1)
        frac == IF dot = {} THEN <<>> ELSE SubSeq(u, (CHOOSE i \in dot : TRUE) + 1, Len(u))
    IN  IF Cardinality(dot) <= 1 /\ IsDigits(whole) /\ frac \in {<<>>, <<"0">>, <<"5">>}
        THEN [ok |-> TRUE,
              twice |-> SignOf(Strip(t)) * (2 * DigitsValue(whole) + (IF frac = <<"5">> THEN 1 ELSE 0))]
        ELSE [ok |-> FALSE, twice |-> 0]

\* t.split(sep) for a separator of one character
RECURSIVE SplitOn(_, _)
SplitOn(t, sep) ==
    IF \A i \in DOMAIN t : t[i] # sep THEN <<t>>
    ELSE LET k == CHOOSE i \in DOMAIN t : t[i] = sep /\ \A j \in 1..(i - 1) : t[j] # sep
         IN  <<SubSeq(t, 1, k - 1)>> \o SplitOn(SubSeq(t, k + 1, Len(t)), sep)

------------------------------------------------------------------------------
(* match_player_name *)

Vendors == {"Rapsodo", "PitchLogic", "Trackman"}

\* f"{data_source.lower()}_player_id"
IdField(data_source) ==
    CASE data_source = "Rapsodo" -> "rapsodo_player_id"
      [] data_source = "PitchLogic" -> "pitchlogic_player_id"
      [] data_source = "Trackman" -> "trackman_player_id"
      [] OTHER -> "unknown_player_id"

\* player.get(id_field): None for a key the player record does not have
PlayerGet(player, field) ==
    IF field \in DOMAIN player THEN player[field] ELSE NULL

ConfidenceRank(c) ==
    CASE c = "High" -> 3
      [] c = "Medium" -> 2
      [] c = "Low" -> 1

\* The match entry the name rules give for one roster entry, NULL when no rule
\* applies (the if ... continue chain of the loop body).
\* mutant: the contains test is tried before the equality tests
NameRule_PartialFirst(pitcher_name, player) ==
    LET full_name == Lower(SpaceJoin(player.first_name, player.last_name))
        first_name == Lower(player.first_name)
        last_name == Lower(player.last_name)
        entry(m, c) == [player_id |-> player.player_id, method |-> m,
                        confidence |-> c, has_duplicates |-> FALSE,
                        all_matches |-> <<>>]
    IN  IF IsSubstr(last_name, pitcher_name) \/ IsSubstr(pitcher_name, full_name)
        THEN entry("Partial Match", "Low")
        ELSE IF pitcher_name = SpaceJoin(last_name, first_name)
             THEN entry("Name (Reversed)", "High")
        ELSE NoInfo

NameRule(pitcher_name, player) ==
    LET full_name == Lower(SpaceJoin(player.first_name, player.last_name))
        first_name == Lower(player.first_name)
        last_name == Lower(player.last_name)
        entry(m, c) == [player_id |-> player.player_id, method |-> m,
                        confidence |-> c, has_duplicates |-> FALSE,
                        all_matches |-> <<>>]
    IN  IF pitcher_name = full_name THEN entry("Exact Name", "High")
        ELSE IF pitcher_name = last_name THEN entry("Last Name", "Medium")
        ELSE IF pitcher_name = SpaceJoin(last_name, first_name)
             THEN entry("Name (Reversed)", "High")
        ELSE IF IsSubstr(last_name, pitcher_name) \/ IsSubstr(pitcher_name, full_name)
             THEN entry("Partial Match", "Low")
        ELSE NoInfo

\* matches: the entries appended while iterating the roster in order
RECURSIVE CollectMatches(_, _)
CollectMatches(pitcher_name, players_list) ==
    IF players_list = <<>> THEN <<>>
    ELSE LET m == NameRule(pitcher_name, Head(players_list))
             rest == CollectMatches(pitcher_name, Tail(players_list))
         IN  IF m = NoInfo THEN rest ELSE <<m>> \o rest

\* mutant: the last entry of maximal rank
BestMatchLast(matches) ==
    LET top == CHOOSE r \in {ConfidenceRank(matches[i].confidence) : i \in DOMAIN matches} :
                 \A j \in DOMAIN matches : ConfidenceRank(matches[j].confidence) <= r
        i == CHOOSE k \in DOMAIN matches :
                 /\ ConfidenceRank(matches[k].confidence) = top
                 /\ \A j \in DOMAIN matches :
                        ConfidenceRank(matches[j].confidence) = top => j <= k
    IN  matches[i]

\* max(matches, key=rank): the first entry of maximal rank
BestMatch(matches) ==
    LET top == CHOOSE r \in {ConfidenceRank(matches[i].confidence) : i \in DOMAIN matches} :
                 \A j \in DOMAIN matches : ConfidenceRank(matches[j].confidence) <= r
        i == CHOOSE k \in DOMAIN matches :
                 /\ ConfidenceRank(matches[k].confidence) = top
                 /\ \A j \in DOMAIN matches :
                        ConfidenceRank(matches[j].confidence) = top => k <= j
    IN  matches[i]

\* first roster index whose vendor ID field equals str(external_id), 0 if none
ExternalIdHit(players_list, external_id, data_source) ==
    LET hits == {i \in DOMAIN players_list :
                    PlayerGet(players_list[i], IdField(data_source)) = external_id}
    IN  IF external_id # NULL /\ external_id # "" /\ data_source # NULL /\ hits # {}
        THEN CHOOSE i \in hits : \A j \in hits : i <= j
        ELSE 0

\* mutant: the first match is returned without the duplicate flag
NameMatchResultNoFlag(pitcher_name, players_list) ==
    LET matches == CollectMatches(Lower(Strip(pitcher_name)), players_list)
    IN  IF Len(matches) = 0 THEN <<NoId, NoInfo>>
        ELSE <<BestMatch(matches).player_id, BestMatch(matches)>>

NameMatchResult(pitcher_name, players_list) ==
    LET matches == CollectMatches(Lower(Strip(pitcher_name)), players_list)
    IN  IF Len(matches) = 0 THEN <<NoId, NoInfo>>
        ELSE IF Len(matches) = 1 THEN <<matches[1].player_id, matches[1]>>
        ELSE LET best == BestMatch(matches)
             IN  <<best.player_id,
                   [best EXCEPT !.has_duplicates = TRUE, !.all_matches = matches]>>

\* mutant: the name rules run before the external ID scan
match_player_name_NameFirst(pitcher_name, players_list, external_id, data_source) ==
    IF pitcher_name = NoText \/ pitcher_name = <<>> THEN <<NoId, NoInfo>>
    ELSE IF NameMatchResult(pitcher_name, players_list)[1] # NoId
         THEN NameMatchResult(pitcher_name, players_list)
    ELSE LET hit == ExternalIdHit(players_list, external_id, data_source)
         IN  IF hit # 0
             THEN <<players_list[hit].player_id,
                    [player_id |-> players_list[hit].player_id, method |-> "External ID",
                     confidence |-> "High", has_duplicates |-> FALSE, all_matches |-> <<>>]>>
             ELSE <<NoId, NoInfo>>

\* mutant: a name that matches nobody falls back to the first roster player
match_player_name_FirstPlayer(pitcher_name, players_list, external_id, data_source) ==
    IF pitcher_name = NoText \/ pitcher_name = <<>> THEN <<NoId, NoInfo>>
    ELSE LET hit == ExternalIdHit(players_list, external_id, data_source)
             r == NameMatchResult(pitcher_name, players_list)
         IN  IF hit # 0
             THEN <<players_list[hit].player_id,
                    [player_id |-> players_list[hit].player_id, method |-> "External ID",
                     confidence |-> "High", has_duplicates |-> FALSE, all_matches |-> <<>>]>>
             ELSE IF r[1] = NoId /\ players_list # <<>>
             THEN <<players_list[1].player_id,
                    [player_id |-> players_list[1].player_id, method |-> "Partial Match",
                     confidence |-> "Low", has_duplicates |-> FALSE, all_matches |-> <<>>]>>
             ELSE r

match_player_name(pitcher_name, players_list, external_id, data_source) ==
    IF pitcher_name = NoText \/ pitcher_name = <<>> THEN <<NoId, NoInfo>>
    ELSE LET hit == ExternalIdHit(players_list, external_id, data_source)
         IN  IF hit # 0
             THEN <<players_list[hit].player_id,
                    [player_id |-> players_list[hit].player_id, method |-> "External ID",
                     confidence |-> "High", has_duplicates |-> FALSE, all_matches |-> <<>>]>>
             ELSE NameMatchResult(pitcher_name, players_list)

------------------------------------------------------------------------------
(* IEEE-754 binary64 arithmetic on the values the validator computes.       *)
(* A double of magnitude at most 2 is held exactly as a signed count of     *)
(* units of 2^-55, in two limbs of 28 bits: value = (hi * 2^28 + lo) * 2^-55. *)
(* The literals 0.2 and 0.3 have 53-bit significands whose last bit is      *)
(* 2^-55 and 2^-54, so sums and differences of scores are exact in these    *)
(* units and are then rounded to 53 significant bits, ties to even.         *)

Limb == 2 ^ 28

F64(h, l) == [neg |-> FALSE, hi |-> h, lo |-> l]

\* the doubles nearest to the decimal literals n/10
Lit10(n) ==
    CASE n = 0 -> F64(0, 0)
      [] n = 1 -> F64(13421772, 214748365)
      [] n = 2 -> F64(26843545, 161061274)
      [] n = 3 -> F64(40265318, 107374182)
      [] n = 4 -> F64(53687091, 53687092)
      [] n = 5 -> F64(67108864, 0)
      [] n = 6 -> F64(80530636, 214748364)
      [] n = 7 -> F64(93952409, 161061272)
      [] n = 8 -> F64(107374182, 107374184)
      [] n = 9 -> F64(120795955, 53687092)
      [] n = 10 -> F64(134217728, 0)

\* magnitude comparison of two limb pairs
MagLess(a, b) == a.hi < b.hi \/ (a.hi = b.hi /\ a.lo < b.lo)

\* exact a + b and a - b (a >= b) on magnitudes
MagAdd(a, b) ==
    LET l == a.lo + b.lo
    IN  [hi |-> a.hi + b.hi + (l \div Limb), lo |-> l % Limb]

MagSub(a, b) ==
    LET l == a.lo - b.lo
    IN  IF l >= 0 THEN [hi |-> a.hi - b.hi, lo |-> l]
        ELSE [hi |-> a.hi - b.hi - 1, lo |-> l + Limb]

\* spacing of the doubles around a magnitude, in units of 2^-55
Quantum(m) ==
    IF m.hi >= 2 ^ 27 THEN 8
    ELSE IF m.hi >= 2 ^ 26 THEN 4
    ELSE IF m.hi >= 2 ^ 25 THEN 2
    ELSE 1

\* round a magnitude to the nearest double, ties to the even significand
RoundMag(m) ==
    LET q == Quantum(m)
        down == (m.lo \div q) * q
        rest == m.lo - down
        up == \/ 2 * rest > q
              \/ (2 * rest = q /\ (down \div q) % 2 = 1)
        l == IF up THEN down + q ELSE down
    IN  [hi |-> m.hi + (l \div Limb), lo |-> l % Limb]

\* a - b in binary64, for b >= 0
FSub(a, b) ==
    LET am == [hi |-> a.hi, lo |-> a.lo]
        bm == [hi |-> b.hi, lo |-> b.lo]
        r == IF a.neg THEN [neg |-> TRUE, m |-> MagAdd(am, bm)]
             ELSE IF MagLess(am, bm) THEN [neg |-> TRUE, m |-> MagSub(bm, am)]
             ELSE [neg |-> FALSE, m |-> MagSub(am, bm)]
        m == RoundMag(r.m)
    IN  [neg |-> r.neg /\ (m.hi # 0 \/ m.lo # 0), hi |-> m.hi, lo |-> m.lo]

\* a >= b
FGeq(a, b) ==
    IF a.neg THEN b.neg /\ ~MagLess(b, a)
    ELSE b.neg \/ ~MagLess(a, b)

\* max(0.0, a)
FMax0(a) == IF a.neg THEN Lit10(0) ELSE a

------------------------------------------------------------------------------
(* validate_pitch_data *)

\* a cell of a CSV row or a mapped field: a number, a text, NaN, or nothing
\* (None, a key the row does not have)
Num(x) == [kind |-> "num", num |-> x]
\* the number x + 1/2 (the numbers of the model are the multiples of 1/2)
NumHalf(x) == [kind |-> "num", num |-> x, half |-> TRUE]
Str(t) == [kind |-> "str", val |-> t]
Absent == [kind |-> "absent"]
NaN == [kind |-> "nan"]

\* a text that float() rejects with ValueError
BadText == Str(<<"x">>)

\* pd.notna
NotNa(v) == v.kind \notin {"absent", "nan"}

\* twice the value of a number cell, and the number cell of half an integer
Twice(v) == IF "half" \in DOMAIN v THEN 2 * v.num + 1 ELSE 2 * v.num
FromTwice(n) == IF n % 2 = 0 THEN Num(n \div 2) ELSE NumHalf((n - 1) \div 2)

\* float(v) of a number, or of a text that float accepts
ToFloat(v) == IF v.kind = "str" THEN FromTwice(ParseFloat(v.val).twice) ELSE v

\* one range rule: the state (score, issues, raised) after the rule's if-block
RuleStep(st, v, lo, hi, penalty, issue) ==
    IF st.raised \/ ~NotNa(v) THEN st
    ELSE IF v.kind = "str" /\ ~ParseFloat(v.val).ok THEN [st EXCEPT !.raised = TRUE]
    ELSE IF Twice(ToFloat(v)) < 2 * lo \/ Twice(ToFloat(v)) > 2 * hi
         THEN [st EXCEPT !.score = FSub(st.score, penalty),
                         !.issues = Append(st.issues, issue)]
    ELSE st

\* returns [raised, score, issues]; raised stands for the ValueError of float()
validate_pitch_data(pitch_dict) ==
    LET s0 == [raised |-> FALSE, score |-> Lit10(10), issues |-> <<>>]
        s1 == RuleStep(s0, pitch_dict.release_speed, 40, 110, Lit10(3), "Velocity")
        s2 == RuleStep(s1, pitch_dict.spin_rate, 500, 3500, Lit10(3), "Spin rate")
        s3 == RuleStep(s2, pitch_dict.spin_axis, 0, 360, Lit10(2), "Spin axis")
        s4 == RuleStep(s3, pitch_dict.release_height, 3, 8, Lit10(2), "Release height")
    IN  [s4 EXCEPT !.score = FMax0(s4.score)]

------------------------------------------------------------------------------
(* Inputs of the matcher: rosters of up to MaxRoster players whose names are *)
(* drawn from a pool in which one player's first name is another's last name *)
(* (so that every pair of rules can hit in one roster), and candidate names  *)
(* in several spellings.                                                     *)

\* (first_name, last_name) of the players a roster is drawn from
PlayerNames == { <<<<"A">>, <<"S">>>>, <<<<"t">>, <<"S">>>>, <<<<"A">>, <<"t">>>> }

\* the vendor ID columns of a roster row: none set, a Rapsodo ID, a PitchLogic ID
IdColumnsPool ==
    { [rapsodo_player_id |-> NULL, pitchlogic_player_id |-> NULL, trackman_player_id |-> NULL],
      [rapsodo_player_id |-> "7", pitchlogic_player_id |-> NULL, trackman_player_id |-> NULL],
      [rapsodo_player_id |-> NULL, pitchlogic_player_id |-> "7", trackman_player_id |-> NULL] }

PlayerRow(id, f, l, x) ==
    [player_id |-> id, first_name |-> f, last_name |-> l,
     rapsodo_player_id |-> x.rapsodo_player_id,
     pitchlogic_player_id |-> x.pitchlogic_player_id,
     trackman_player_id |-> x.trackman_player_id]

NamePool == PlayerNames \X IdColumnsPool

\* rosters: the player at position i has player_id i
Rosters ==
    UNION { { [i \in 1..n |-> PlayerRow(i, c[i][1][1], c[i][1][2], c[i][2])] : c \in [1..n -> NamePool] }
            : n \in 0..MaxRoster }

CandidateNames ==
    { NoText, <<>>, <<" ">>,
      <<"s">>, <<"S">>, <<" ", "t", " ">>,
      <<"a", " ", "s">>, <<"s", " ", "a">>,
      <<"t", " ", "s">>, <<"a">>, <<"x">> }

\* (external_id, data_source) pairs
IdArguments ==
    { <<NULL, NULL>>, <<"7", "Rapsodo">>, <<"7", "PitchLogic">>,
      <<"8", "Rapsodo">>, <<"7", NULL>> }

InitMatch ==
    /\ \E n \in CandidateNames, r \in Rosters, x \in IdArguments :
          call = [fn |-> "match_player_name", pitcher_name |-> n, players_list |-> r,
                  external_id |-> x[1], data_source |-> x[2]]
    /\ ret = <<>>
    /\ pc = "call"
    /\ df = NoFile /\ db = EmptyDb /\ stats = NoStats /\ loop = NoLoop
    /\ session_state = NoSession

CallMatch ==
    /\ pc = "call"
    /\ call.fn = "match_player_name"
    /\ ret' = match_player_name(call.pitcher_name, call.players_list,
                                call.external_id, call.data_source)
    /\ pc' = "returned"
    /\ UNCHANGED <<call, df, db, stats, loop>>
    /\ UNCHANGED session_state

NextMatch == CallMatch

SpecMatch == InitMatch /\ [][NextMatch]_vars

------------------------------------------------------------------------------
(* Claims about match_player_name (checked under SpecMatch) *)

MatchReturned == pc = "returned" /\ call.fn = "match_player_name"

\* roster positions whose vendor ID column equals the external ID given
IdHolders ==
    IF call.external_id \in {NULL, ""} \/ call.data_source = NULL THEN {}
    ELSE {i \in DOMAIN call.players_list :
            call.players_list[i][IdField(call.data_source)] = call.external_id}

NameGiven == call.pitcher_name # NoText /\ call.pitcher_name # <<>>

\* the rule tag a roster position gets for the candidate name, "" for none
RuleOf(i) ==
    LET p == call.players_list[i]
        n == Lower(Strip(call.pitcher_name))
        f == Lower(p.first_name)
        l == Lower(p.last_name)
    IN  CASE n = f \o <<" ">> \o l -> "High"
          [] n # f \o <<" ">> \o l /\ n = l -> "Medium"
          [] n # f \o <<" ">> \o l /\ n # l /\ n = l \o <<" ">> \o f -> "High"
          [] OTHER -> IF IsSubstr(l, n) \/ IsSubstr(n, f \o <<" ">> \o l) THEN "Low" ELSE ""

NameMatched == {i \in DOMAIN call.players_list : RuleOf(i) # ""}

\* C1: when a roster player holds the external ID given and a different player
\* matches the non-empty candidate name by a name rule, the call returns a
\* holder of the ID, tagged External ID / High, and not the name-matched player.
C1_ExternalIdPriority ==
    (/\ MatchReturned
     /\ NameGiven
     /\ \E i \in IdHolders : \E j \in NameMatched \ IdHolders : i # j)
    => /\ ret[1] \in {call.players_list[i].player_id : i \in IdHolders}
       /\ ret[2].method = "External ID"
       /\ ret[2].confidence = "High"
       /\ ret[1] \notin {call.players_list[j].player_id : j \in NameMatched \ IdHolders}

\* the ID holder comes after a player whose full name equals the candidate
C1_Witness ==
    /\ MatchReturned
    /\ NameGiven
    /\ \E i \in IdHolders : \E j \in NameMatched \ IdHolders :
          j < i /\ RuleOf(j) = "High" /\ ret[1] = call.players_list[i].player_id

\* C2: two roster players share a last name, the candidate equals that last
\* name up to case and no external ID hits: one player_id is returned, with
\* has_duplicates set and both players in all_matches.
C2_SharedLastName ==
    \A i, j \in DOMAIN call.players_list :
        (/\ MatchReturned
         /\ NameGiven
         /\ IdHolders = {}
         /\ i # j
         /\ call.players_list[i].last_name = call.players_list[j].last_name
         /\ Lower(call.pitcher_name) = Lower(call.players_list[i].last_name))
        => /\ ret[1] \in {call.players_list[k].player_id : k \in DOMAIN call.players_list}
           /\ ret[2].player_id = ret[1]
           /\ ret[2].has_duplicates = TRUE
           /\ \E a, b \in DOMAIN ret[2].all_matches :
                 /\ ret[2].all_matches[a].player_id = call.players_list[i].player_id
                 /\ ret[2].all_matches[b].player_id = call.players_list[j].player_id

C2_Witness ==
    /\ MatchReturned
    /\ IdHolders = {}
    /\ \E i, j \in DOMAIN call.players_list :
          /\ i # j
          /\ call.players_list[i].last_name = call.players_list[j].last_name
          /\ call.players_list[i].first_name # call.players_list[j].first_name
          /\ Lower(call.pitcher_name) = Lower(call.players_list[i].last_name)
          /\ call.pitcher_name # call.players_list[i].last_name
    /\ ret[2].has_duplicates = TRUE
    /\ Len(ret[2].all_matches) = 2

\* C3: with two or more name matches, the player returned is the first one in
\* roster order among those of the highest confidence tier.
C3_HighestTierFirstInOrder ==
    (/\ MatchReturned
     /\ NameGiven
     /\ IdHolders = {}
     /\ Cardinality(NameMatched) >= 2)
    => \E k \in NameMatched :
          /\ ret[1] = call.players_list[k].player_id
          /\ ret[2].confidence = RuleOf(k)
          /\ \A j \in NameMatched :
                /\ ConfidenceRank(RuleOf(j)) <= ConfidenceRank(RuleOf(k))
                /\ ConfidenceRank(RuleOf(j)) = ConfidenceRank(RuleOf(k)) => k <= j

\* a Low match first, then two High matches: the first High one is returned
C3_Witness ==
    /\ MatchReturned
    /\ IdHolders = {}
    /\ Len(call.players_list) = 3
    /\ NameMatched = {1, 2, 3}
    /\ RuleOf(1) = "Low" /\ RuleOf(2) = "High" /\ RuleOf(3) = "High"
    /\ ret[1] = call.players_list[2].player_id

------------------------------------------------------------------------------
(* Inputs of the validator: each checked field is absent, NaN, a text that  *)
(* float() rejects, or a number on, next to or far from a range bound.      *)

VelocityPool == {Absent, NaN, BadText, Num(39), Num(40), Num(75), Num(110), Num(111), Num(200)}
SpinRatePool == {Absent, BadText, Num(10), Num(499), Num(500), Num(2200), Num(3500), Num(3501)}
SpinAxisPool == {Absent, Num(-1), Num(0), Num(180), Num(360), Num(361)}
ReleaseHeightPool == {Absent, Num(2), Num(3), Num(6), Num(8), Num(9)}

InitValidate ==
    /\ \E v \in VelocityPool, s \in SpinRatePool, a \in SpinAxisPool, h \in ReleaseHeightPool :
          call = [fn |-> "validate_pitch_data",
                  pitch_dict |-> [release_speed |-> v, spin_rate |-> s,
                                  spin_axis |-> a, release_height |-> h]]
    /\ ret = <<>>
    /\ pc = "call"
    /\ df = NoFile /\ db = EmptyDb /\ stats = NoStats /\ loop = NoLoop
    /\ session_state = NoSession

CallValidate ==
    /\ pc = "call"
    /\ call.fn = "validate_pitch_data"
    /\ ret' = validate_pitch_data(call.pitch_dict)
    /\ pc' = "returned"
    /\ UNCHANGED <<call, df, db, stats, loop>>
    /\ UNCHANGED session_state

NextValidate == CallValidate

SpecValidate == InitValidate /\ [][NextValidate]_vars

------------------------------------------------------------------------------
(* Claims about validate_pitch_data (checked under SpecValidate) *)

ValidateReturned ==
    pc = "returned" /\ call.fn = "validate_pitch_data" /\ ~ret.raised

\* 1 when the field is a number outside [lo, hi], else 0
Violates(v, lo, hi) ==
    IF v.kind = "num" /\ (Twice(v) < 2 * lo \/ Twice(v) > 2 * hi) THEN 1 ELSE 0

\* the penalties of the violated rules, in tenths
PenaltyTenths(d) ==
    3 * Violates(d.release_speed, 40, 110) + 3 * Violates(d.spin_rate, 500, 3500)
    + 2 * Violates(d.spin_axis, 0, 360) + 2 * Violates(d.release_height, 3, 8)

ViolatedCount(d) ==
    Violates(d.release_speed, 40, 110) + Violates(d.spin_rate, 500, 3500)
    + Violates(d.spin_axis, 0, 360) + Violates(d.release_height, 3, 8)

\* C10: the score returned is max(0, 1.0 - sum of the penalties of the violated
\* rules), there is one issue per violated rule, and the score is in [0, 1]:
\* (75, 2200, 180, 6) gives 1.0, velocity 200 gives 0.7, and spin 10 as well
\* gives 0.4.
C10_ScoreIsOneMinusPenalties ==
    ValidateReturned =>
        /\ ret.score = Lit10(10 - PenaltyTenths(call.pitch_dict))
        /\ Len(ret.issues) = ViolatedCount(call.pitch_dict)
        /\ FGeq(ret.score, Lit10(0)) /\ FGeq(Lit10(10), ret.score)

\* what does hold: one issue per violated rule, every rule evaluated, nothing
\* for a missing field, and a score in [0, 1]
C10_IssuesAndRange ==
    ValidateReturned =>
        /\ Len(ret.issues) = ViolatedCount(call.pitch_dict)
        /\ FGeq(ret.score, Lit10(0)) /\ FGeq(Lit10(10), ret.score)
        /\ (ViolatedCount(call.pitch_dict) = 0 => ret.score = Lit10(10))
        /\ (ViolatedCount(call.pitch_dict) = 1 =>
                ret.score = Lit10(10 - PenaltyTenths(call.pitch_dict)))

------------------------------------------------------------------------------
(* Rows of a file, and the vendor field mappers.  A row is a function from   *)
(* column names to cells.  Of the canonical fields only the ones that the    *)
(* validator and the handedness inference read are carried; the others are   *)
(* copied from row.get(...) to the INSERT without any decision on them.      *)

\* row.get(col): None for a column the row does not have
RowGet(row, col) == IF col \in DOMAIN row THEN row[col] ELSE Absent

\* bool(x): None, 0 and "" are falsy; NaN is a float other than 0, so truthy
Truthy(v) ==
    CASE v.kind = "absent" -> FALSE
      [] v.kind = "nan" -> TRUE
      [] v.kind = "num" -> Twice(v) # 0
      [] v.kind = "str" -> v.val # <<>>

\* a or b
PyOr(a, b) == IF Truthy(a) THEN a ELSE b

ClockTwiceNoWrap(hours, minutes) == (hours % 12) * 60 + minutes

\* two times ((hours % 12) * 30 + (minutes / 2)) % 360
ClockTwice(hours, minutes) == ((hours % 12) * 60 + minutes) % 720

\* tilt_to_degrees: None (Absent) for null, '' and what cannot be parsed; the
\* float of a number or of a numeric text; the degrees of a clock string
tilt_to_degrees(tilt_str) ==
    CASE ~NotNa(tilt_str) -> Absent
      [] tilt_str.kind = "str" /\ tilt_str.val = <<>> -> Absent
      [] tilt_str.kind = "num" -> tilt_str
      [] OTHER ->
            LET t == Strip(tilt_str.val)
                parts == SplitOn(t, ":")
            IN  IF ParseFloat(t).ok THEN FromTwice(ParseFloat(t).twice)
                ELSE IF Len(parts) > 1 /\ ParseInt(parts[1]).ok /\ ParseInt(parts[2]).ok
                THEN FromTwice(ClockTwice(ParseInt(parts[1]).val, ParseInt(parts[2]).val))
                ELSE Absent

determine_handedness_DefaultR(arm_slot_value) ==
    IF ~NotNa(arm_slot_value) THEN NULL
    ELSE LET arm_slot_degrees == tilt_to_degrees(arm_slot_value)
         IN  IF arm_slot_degrees = Absent THEN NULL
             ELSE LET d == Twice(arm_slot_degrees) % 720
                  IN  IF 420 <= d /\ d <= 660 THEN "L" ELSE "R"

determine_handedness_from_arm_slot(arm_slot_value) ==
    IF ~NotNa(arm_slot_value) THEN NULL
    ELSE LET arm_slot_degrees == tilt_to_degrees(arm_slot_value)
         IN  IF arm_slot_degrees = Absent THEN NULL
             ELSE LET d == Twice(arm_slot_degrees) % 720
                  IN  IF 60 <= d /\ d <= 300 THEN "R"
                      ELSE IF 420 <= d /\ d <= 660 THEN "L"
                      ELSE NULL

\* 'Tilt' in row and pd.notna(row['Tilt'])
TiltOverride(row, spin_axis) ==
    IF "Tilt" \in DOMAIN row /\ NotNa(row["Tilt"]) THEN tilt_to_degrees(row["Tilt"])
    ELSE spin_axis

map_rapsodo_fields(row) ==
    [release_speed |-> PyOr(RowGet(row, "Velocity"), RowGet(row, "RelSpeed")),
     spin_rate |-> RowGet(row, "SpinRate"),
     spin_axis |-> TiltOverride(row, RowGet(row, "SpinAxis")),
     release_height |-> RowGet(row, "RelHeight"),
     arm_slot |-> Absent]

map_pitchlogic_fields(row) ==
    LET spin_axis_raw == PyOr(PyOr(PyOr(RowGet(row, "Axis"), RowGet(row, "SpinAxis")),
                                   RowGet(row, "Spin Axis")), RowGet(row, "Spin Direction (blue)"))
        arm_slot_raw == PyOr(PyOr(RowGet(row, "ArmSlot"), RowGet(row, "Arm Slot")),
                             RowGet(row, "Arm Slot (yellow)"))
    IN  [release_speed |-> PyOr(PyOr(RowGet(row, "Velo"), RowGet(row, "Speed")),
                                RowGet(row, "Speed (mph)")),
         spin_rate |-> PyOr(PyOr(PyOr(RowGet(row, "Spin"), RowGet(row, "SpinRate")),
                                 RowGet(row, "Spin Rate")), RowGet(row, "Total Spin (rpm)")),
         spin_axis |-> IF Truthy(spin_axis_raw) THEN tilt_to_degrees(spin_axis_raw) ELSE Absent,
         release_height |-> PyOr(RowGet(row, "RH"), RowGet(row, "Release Height")),
         arm_slot |-> IF Truthy(arm_slot_raw) THEN tilt_to_degrees(arm_slot_raw) ELSE Absent]

map_trackman_fields(row) ==
    [release_speed |-> RowGet(row, "RelSpeed"),
     spin_rate |-> RowGet(row, "SpinRate"),
     spin_axis |-> TiltOverride(row, RowGet(row, "SpinAxis")),
     release_height |-> RowGet(row, "RelHeight"),
     arm_slot |-> Absent]

\* the if/elif on data_source_name at the top of the row loop
MapFields(data_source_name, row) ==
    CASE data_source_name = "Rapsodo" -> map_rapsodo_fields(row)
      [] data_source_name = "PitchLogic" -> map_pitchlogic_fields(row)
      [] data_source_name = "Trackman" -> map_trackman_fields(row)
      [] OTHER -> [release_speed |-> Absent, spin_rate |-> Absent, spin_axis |-> Absent,
                   release_height |-> Absent, arm_slot |-> Absent]

\* the data_sources registry: source_name -> source_id
DataSources == [Rapsodo |-> 1, PitchLogic |-> 2, Trackman |-> 3, Manual |-> 4]

------------------------------------------------------------------------------
(* create_player_from_name *)

\* str.split(): the maximal runs of non-space characters
RECURSIVE Split(_)
Split(t) ==
    LET u == LStrip(t)
    IN  IF u = <<>> THEN <<>>
        ELSE LET k == CHOOSE n \in 1..Len(u) :
                        /\ \A i \in 1..n : u[i] # " "
                        /\ (n = Len(u) \/ u[n + 1] = " ")
             IN  <<SubSeq(u, 1, k)>> \o Split(SubSeq(u, k + 1, Len(u)))

RECURSIVE JoinWords(_)
JoinWords(ws) ==
    IF Len(ws) = 1 THEN ws[1] ELSE SpaceJoin(ws[1], JoinWords(Tail(ws)))

\* (first_name, last_name) of the new player
ParseName(pitcher_name) ==
    LET names == Split(Strip(pitcher_name))
    IN  IF Len(names) = 0 THEN <<<<"U", "n", "k", "n", "o", "w", "n">>, <<"P", "l", "a", "y", "e", "r">>>>
        ELSE IF Len(names) = 1 THEN <<names[1], <<"U", "n", "k", "n", "o", "w", "n">>>>
        ELSE IF Len(names) = 2 THEN <<names[1], names[2]>>
        ELSE <<names[1], JoinWords(Tail(names))>>

\* the arm-slot column of pitcher_df, NULL when it has none of the spellings
ArmSlotCol(columns) ==
    IF "Arm Slot (yellow)" \in columns THEN "Arm Slot (yellow)"
    ELSE IF "Arm Slot" \in columns THEN "Arm Slot"
    ELSE IF "ArmSlot" \in columns THEN "ArmSlot"
    ELSE IF "arm_slot" \in columns THEN "arm_slot"
    ELSE NULL

\* Series.dropna(): the cells that are not null, in order
RECURSIVE DropNa(_)
DropNa(cells) ==
    IF cells = <<>> THEN <<>>
    ELSE IF NotNa(Head(cells)) THEN <<Head(cells)>> \o DropNa(Tail(cells))
    ELSE DropNa(Tail(cells))

\* .head(n)
HeadN(q, n) == SubSeq(q, 1, IF Len(q) < n THEN Len(q) ELSE n)

\* number of the values of a sequence of cells that the classifier decides as h
Votes(values, h) ==
    Cardinality({i \in DOMAIN values : determine_handedness_from_arm_slot(values[i]) = h})

InferHandDefaultL(columns, pitcher_rows) ==
    LET arm_slot_col == ArmSlotCol(columns)
    IN  IF Len(pitcher_rows) = 0 \/ arm_slot_col = NULL THEN "L"
        ELSE LET arm_slot_values ==
                     DropNa([i \in DOMAIN pitcher_rows |-> RowGet(pitcher_rows[i], arm_slot_col)])
                 sample == HeadN(arm_slot_values, 5)
             IN  IF Votes(sample, "L") > Votes(sample, "R") THEN "L" ELSE "R"

InferHandAllValues(columns, pitcher_rows) ==
    LET arm_slot_col == ArmSlotCol(columns)
    IN  IF Len(pitcher_rows) = 0 \/ arm_slot_col = NULL THEN "R"
        ELSE LET arm_slot_values ==
                     DropNa([i \in DOMAIN pitcher_rows |-> RowGet(pitcher_rows[i], arm_slot_col)])
             IN  IF Votes(arm_slot_values, "L") > Votes(arm_slot_values, "R") THEN "L" ELSE "R"

\* throws_hand of the new player, from the rows of pitcher_df (a sequence)
InferHand(columns, pitcher_rows) ==
    LET arm_slot_col == ArmSlotCol(columns)
    IN  IF Len(pitcher_rows) = 0 \/ arm_slot_col = NULL THEN "R"
        ELSE LET arm_slot_values ==
                     DropNa([i \in DOMAIN pitcher_rows |-> RowGet(pitcher_rows[i], arm_slot_col)])
                 sample == HeadN(arm_slot_values, 5)
             IN  IF Votes(sample, "L") > Votes(sample, "R") THEN "L" ELSE "R"

\* the row INSERTed into players; player_id is cursor.lastrowid
NewPlayer(players, pitcher_name, external_id, data_source, columns, pitcher_rows) ==
    LET nm == ParseName(pitcher_name)
        withId == external_id # NULL /\ external_id # "" /\ data_source # NULL
        idOf(v) == IF withId /\ IdField(data_source) = v THEN external_id ELSE NULL
    IN  [player_id |-> Len(players) + 1,
         first_name |-> nm[1], last_name |-> nm[2],
         throws_hand |-> InferHand(columns, pitcher_rows),
         is_active |-> TRUE,
         rapsodo_player_id |-> idOf("rapsodo_player_id"),
         pitchlogic_player_id |-> idOf("pitchlogic_player_id"),
         trackman_player_id |-> idOf("trackman_player_id")]

------------------------------------------------------------------------------
(* process_csv: grouping *)

\* order of the characters of the model's texts in a string comparison
CharRank(c) ==
    CASE c = " " -> 0
      [] c = "A" -> 1
      [] c = "S" -> 2
      [] c = "T" -> 3
      [] c = "a" -> 4
      [] c = "n" -> 5
      [] c = "s" -> 6
      [] c = "t" -> 7
      [] OTHER -> 8

\* a < b on strings
RECURSIVE TextLess(_, _)
TextLess(a, b) ==
    IF a = <<>> THEN b # <<>>
    ELSE IF b = <<>> THEN FALSE
    ELSE IF CharRank(Head(a)) # CharRank(Head(b)) THEN CharRank(Head(a)) < CharRank(Head(b))
    ELSE TextLess(Tail(a), Tail(b))

\* the pitcher name column process_csv groups by, NULL when the file has none
PitcherCol(columns) ==
    IF "Pitcher Name" \in columns THEN "Pitcher Name"
    ELSE IF "Pitcher" \in columns THEN "Pitcher"
    ELSE IF "pitcher" \in columns THEN "pitcher"
    ELSE IF "pitcher_name" \in columns THEN "pitcher_name"
    ELSE IF "First Name" \in columns /\ "Last Name" \in columns THEN "_pitcher_full_name"
    ELSE NULL

\* astype(str) of a cell
AsText(v) == IF v.kind = "str" THEN v.val ELSE <<"n", "a", "n">>

\* the cell of the pitcher column of a row
PitcherCell(row, col) ==
    IF col = "_pitcher_full_name"
    THEN Str(SpaceJoin(AsText(RowGet(row, "First Name")), AsText(RowGet(row, "Last Name"))))
    ELSE RowGet(row, col)

\* the positions of a sequence of positions whose key is k, in order
RECURSIVE Where(_, _, _)
Where(idx, key, k) ==
    IF idx = <<>> THEN <<>>
    ELSE IF key[Head(idx)] = k THEN <<Head(idx)>> \o Where(Tail(idx), key, k)
    ELSE Where(Tail(idx), key, k)

\* df.groupby(pitcher_col): the groups in the order of their names, each with
\* the positions of its rows; rows whose name is null are in no group
RECURSIVE NameGroups(_, _, _)
NameGroups(names, idx, key) ==
    IF names = {} THEN <<>>
    ELSE LET n == CHOOSE x \in names : \A y \in names \ {x} : TextLess(x, y)
         IN  <<[name |-> n, idx |-> Where(idx, key, Str(n))]>>
             \o NameGroups(names \ {n}, idx, key)

GroupByPitcher(rows, col) ==
    LET key == [i \in DOMAIN rows |-> PitcherCell(rows[i], col)]
        names == {key[i].val : i \in {j \in DOMAIN rows : NotNa(key[j])}}
    IN  NameGroups(names, [i \in DOMAIN rows |-> i], key)

\* datetime.now().date(), a day after the dates of the files
Today == 3

\* pitcher_df.groupby('_session_date'): the groups in the order of their dates;
\* rows whose date is null are in no group
RECURSIVE DateGroups(_, _, _)
DateGroups(dates, idx, key) ==
    IF dates = {} THEN <<>>
    ELSE LET d == CHOOSE x \in dates : \A y \in dates : x <= y
         IN  <<[date |-> d, idx |-> Where(idx, key, Num(d))]>>
             \o DateGroups(dates \ {d}, idx, key)

GroupByDatePerRow(rows, columns, idx) ==
    [i \in DOMAIN idx |->
        [date |-> IF "Date" \in columns THEN RowGet(rows[idx[i]], "Date").num ELSE Today,
         idx |-> <<idx[i]>>]]

\* pitcher_df.groupby('_session_date'): the dates in order, each with its rows
GroupByDate(rows, columns, idx) ==
    LET key == [i \in DOMAIN rows |->
                   IF "Date" \in columns THEN RowGet(rows[i], "Date") ELSE Num(Today)]
        dates == {key[idx[i]].num : i \in {j \in DOMAIN idx : NotNa(key[idx[j]])}}
    IN  DateGroups(dates, idx, key)

\* extract_external_id: the first ID column of the vendor that the row has
RECURSIVE FirstNotNa(_, _)
FirstNotNa(row, fields) ==
    IF fields = <<>> THEN NULL
    ELSE IF Head(fields) \in DOMAIN row /\ NotNa(row[Head(fields)]) THEN row[Head(fields)].val
    ELSE FirstNotNa(row, Tail(fields))

extract_external_id(row, data_source) ==
    CASE data_source = "Rapsodo" ->
            FirstNotNa(row, <<"PlayerId", "Player ID", "PlayerID", "RapsodoID", "Rapsodo ID">>)
      [] data_source = "PitchLogic" ->
            FirstNotNa(row, <<"PlayerID", "Player ID", "PitchLogicID">>)
      [] data_source = "Trackman" ->
            FirstNotNa(row, <<"PlayerID", "Player ID", "TrackmanID">>)
      [] OTHER -> NULL

\* entries of stats['errors']
RowError(n) == [msg |-> "Row", row |-> n, name |-> <<>>]
NameError(m, n) == [msg |-> m, row |-> 0, name |-> n]

------------------------------------------------------------------------------
(* The files of the model.  A Rapsodo export names the pitcher in 'Pitcher'  *)
(* and the speed in 'Velocity'; a PitchLogic export uses 'Pitcher Name' and  *)
(* 'Speed (mph)' and has an 'Arm Slot' column, here of 90 or 270 degrees on  *)
(* one date.  The names are "s" and "a s" (both resolve to the roster's A S) *)
(* and "z" (no roster player).  A Date cell is a calendar day, the value     *)
(* that pd.to_datetime(...).dt.date gives for it.                            *)

PitcherNames == {<<"s">>, <<"a", " ", "s">>, <<"z">>}
FileDates == {1, 2}
SpeedCells == {Num(75), BadText}

RapsodoRow(n, d, v) == ("Pitcher" :> Str(n)) @@ ("Date" :> Num(d)) @@ ("Velocity" :> v)
RapsodoRowNoDate(n, v) == ("Pitcher" :> Str(n)) @@ ("Velocity" :> v)
ArmSlots == {90, 270}
PitchLogicRow(n, a, v) ==
    ("Pitcher Name" :> Str(n)) @@ ("Date" :> Num(1)) @@ ("Speed (mph)" :> v)
    @@ ("Arm Slot" :> Num(a))

SeqsUpTo(S, n) == UNION {[1..k -> S] : k \in 0..n}

\* the rows of the files: a speed that is not a number comes on date 1 (and
\* with arm slot 270) only
RapsodoRows ==
    {RapsodoRow(n, d, Num(75)) : n \in PitcherNames, d \in FileDates}
    \cup {RapsodoRow(n, 1, BadText) : n \in PitcherNames}
RapsodoRowsClean == {RapsodoRow(n, d, Num(75)) : n \in {<<"s">>, <<"z">>}, d \in FileDates}
PitchLogicRows ==
    {PitchLogicRow(n, a, Num(75)) : n \in {<<"s">>, <<"z">>}, a \in ArmSlots}
    \cup {PitchLogicRow(n, 270, BadText) : n \in {<<"s">>, <<"z">>}}

RapsodoFiles ==
    { [vendor |-> "Rapsodo", columns |-> {"Pitcher", "Date", "Velocity"}, rows |-> r] :
        r \in SeqsUpTo(RapsodoRows, MaxRows) \cup [1..(MaxRows + 1) -> RapsodoRowsClean] }

RapsodoFilesNoDate ==
    { [vendor |-> "Rapsodo", columns |-> {"Pitcher", "Velocity"}, rows |-> r] :
        r \in SeqsUpTo({RapsodoRowNoDate(n, v) : n \in PitcherNames, v \in SpeedCells}, MaxRows) }

PitchLogicFiles ==
    { [vendor |-> "PitchLogic",
       columns |-> {"Pitcher Name", "Date", "Speed (mph)", "Arm Slot"}, rows |-> r] :
        r \in SeqsUpTo(PitchLogicRows, MaxRows) }

Files == RapsodoFiles \cup RapsodoFilesNoDate \cup PitchLogicFiles

\* the players table before the upload, as get_players returns it
Roster ==
    << [player_id |-> 1, first_name |-> <<"A">>, last_name |-> <<"S">>, throws_hand |-> "R",
        is_active |-> TRUE, rapsodo_player_id |-> NULL, pitchlogic_player_id |-> NULL,
        trackman_player_id |-> NULL] >>

Init ==
    /\ df \in Files
    /\ db = [players |-> Roster, sessions |-> <<>>, pitches |-> <<>>, committed |-> 0]
    /\ stats = NoStats
    /\ loop = NoLoop
    /\ call = [fn |-> "main"]
    /\ ret = <<>>
    /\ pc = "page"
    /\ session_state = NoSession

------------------------------------------------------------------------------
(* process_csv and process_pitcher_data, one action per step *)

ZeroStats == [inserted |-> 0, skipped |-> 0, errors |-> <<>>]

\* conn.commit(): every INSERT issued so far is durable
Commit(d) == [d EXCEPT !.committed = Len(d.pitches)]

create_training_session_Manual(sessions, player_id, session_date, data_source_id, total_pitches) ==
    [session_id |-> Len(sessions) + 1,
     player_id |-> player_id,
     session_date |-> session_date,
     total_pitches |-> total_pitches,
     data_source_id |-> DataSources["Manual"]]

\* the row INSERTed into training_sessions; session_id is cursor.lastrowid
create_training_session(sessions, player_id, session_date, data_source_id, total_pitches) ==
    [session_id |-> Len(sessions) + 1,
     player_id |-> player_id,
     session_date |-> session_date,
     total_pitches |-> total_pitches,
     data_source_id |-> data_source_id]

\* process_csv(df, None, data_source, None, filename, bulk_mode=True, ...), up
\* to the top of the loop over the pitcher groups
ProcessBulk ==
    /\ pc = "page"
    /\ \E auto_create \in BOOLEAN, conn_ok \in BOOLEAN :
          /\ call' = [fn |-> "process_csv", bulk_mode |-> TRUE,
                      auto_create_players |-> auto_create,
                      data_source_name |-> df.vendor,
                      data_source_id |-> DataSources[df.vendor],
                      players_list |-> db.players, db_rejects |-> {}]
          /\ IF ~conn_ok
             THEN pc' = "failed" /\ UNCHANGED <<stats, loop>>
             ELSE IF PitcherCol(df.columns) = NULL
             THEN pc' = "failed" /\ stats' = NoStats /\ UNCHANGED loop
             ELSE /\ pc' = "group"
                  /\ stats' = NoStats
                  /\ loop' = [NoLoop EXCEPT
                                 !.groups = GroupByPitcher(df.rows, PitcherCol(df.columns))]
    /\ UNCHANGED <<df, db, ret>>
    /\ UNCHANGED session_state

\* one pass of "for pitcher_name, pitcher_df in grouped" down to the date
\* grouping: match or create the player, or skip the group
NextGroup ==
    /\ pc = "group"
    /\ loop.groups # <<>>
    /\ LET g == Head(loop.groups)
           pitcher_rows == [i \in DOMAIN g.idx |-> df.rows[g.idx[i]]]
           external_id == extract_external_id(pitcher_rows[1], call.data_source_name)
           m == match_player_name(g.name, call.players_list, external_id, call.data_source_name)
           warned == IF m[2] # NoInfo /\ m[2].has_duplicates
                     THEN <<NameError("Multiple matches", g.name)>> ELSE <<>>
           create == m[1] = NoId /\ call.auto_create_players
       IN  \E created \in (IF create THEN BOOLEAN ELSE {FALSE}) :
             LET new == NewPlayer(db.players, g.name, external_id, call.data_source_name,
                                  df.columns, pitcher_rows)
                 matched_player_id == IF created THEN new.player_id ELSE m[1]
                 notes == warned
                          \o (IF create /\ ~created
                              THEN <<NameError("Failed to create player", g.name)>> ELSE <<>>)
                          \o (IF m[1] = NoId /\ ~call.auto_create_players
                              THEN <<NameError("Skipped player", g.name)>> ELSE <<>>)
             IN  /\ db' = IF created THEN Commit([db EXCEPT !.players = Append(@, new)]) ELSE db
                 /\ IF matched_player_id = NoId
                    THEN /\ stats' = [stats EXCEPT
                                !.skipped = @ + Len(g.idx),
                                !.errors = @ \o notes \o <<NameError("Could not match", g.name)>>]
                         /\ loop' = [loop EXCEPT !.groups = Tail(@)]
                         /\ pc' = "group"
                    ELSE /\ stats' = [stats EXCEPT
                                !.players_created = @ + (IF created THEN 1 ELSE 0),
                                !.errors = @ \o notes]
                         /\ loop' = [groups |-> loop.groups,
                                     player_id |-> matched_player_id,
                                     external_id |-> external_id,
                                     dates |-> GroupByDate(df.rows, df.columns, g.idx),
                                     ndates |-> Len(GroupByDate(df.rows, df.columns, g.idx)),
                                     rows |-> <<>>]
                         /\ pc' = "date"
    /\ UNCHANGED <<df, call, ret>>
    /\ UNCHANGED session_state

\* one pass of "for session_date, date_df in date_groups" down to the call of
\* process_pitcher_data: create_training_session
NextDate ==
    /\ pc = "date"
    /\ loop.dates # <<>>
    /\ LET d == Head(loop.dates)
           session == create_training_session(db.sessions, loop.player_id, d.date,
                                              call.data_source_id, Len(d.idx))
       IN  /\ db' = Commit([db EXCEPT !.sessions = Append(@, session)])
           /\ stats' = [stats EXCEPT !.sessions_created = @ + 1]
           /\ loop' = [session_id |-> session.session_id, given |-> Len(d.idx),
                       pstats |-> ZeroStats] @@
                      [loop EXCEPT !.rows = d.idx]
           /\ pc' = "row"
    /\ UNCHANGED <<df, call, ret>>
    /\ UNCHANGED session_state

LogRowErrorUncapped(errors, i) == Append(errors, RowError(i))

\* the except clause's "if len(stats['errors']) < 10: stats['errors'].append(...)"
LogRowError(errors, i) == IF Len(errors) < 10 THEN Append(errors, RowError(i)) ELSE errors

\* one pass of "for idx, row in df.iterrows()" of process_pitcher_data
ProcessRow ==
    /\ pc = "row"
    /\ loop.rows # <<>>
    /\ LET i == Head(loop.rows)
           row == df.rows[i]
           pitch_data == MapFields(call.data_source_name, row)
           v == validate_pitch_data(pitch_data)
           raises == v.raised \/ i \in call.db_rejects
           pitch == [player_id |-> loop.player_id, session_id |-> loop.session_id,
                     data_source_id |-> call.data_source_id, row |-> i,
                     release_speed |-> pitch_data.release_speed,
                     data_quality_score |-> v.score,
                     is_valid_pitch |-> FGeq(v.score, Lit10(5))]
       IN  /\ db' = IF raises THEN db ELSE [db EXCEPT !.pitches = Append(@, pitch)]
           /\ loop' = [loop EXCEPT
                 !.rows = Tail(@),
                 !.pstats = IF raises
                            THEN [@ EXCEPT !.skipped = @ + 1,
                                           !.errors = LogRowError(@, i)]
                            ELSE [@ EXCEPT !.inserted = @ + 1]]
    /\ UNCHANGED <<df, stats, call, ret, pc>>
    /\ UNCHANGED session_state

\* conn.commit() and return of process_pitcher_data, and what process_csv does
\* with the result
EndPitcherData ==
    /\ pc = "row"
    /\ loop.rows = <<>>
    /\ IF call.fn = "process_pitcher_data"
       THEN pc' = "returned" /\ ret' = loop.pstats /\ UNCHANGED <<stats, loop>>
       ELSE IF call.bulk_mode
       THEN /\ stats' = [stats EXCEPT !.inserted = @ + loop.pstats.inserted,
                                      !.skipped = @ + loop.pstats.skipped,
                                      !.errors = @ \o loop.pstats.errors]
            /\ loop' = [loop EXCEPT !.dates = Tail(@)]
            /\ pc' = "date"
            /\ UNCHANGED ret
       ELSE /\ stats' = [stats EXCEPT !.inserted = loop.pstats.inserted,
                                      !.skipped = loop.pstats.skipped,
                                      !.errors = loop.pstats.errors]
            /\ pc' = "close"
            /\ UNCHANGED <<loop, ret>>
    /\ db' = Commit(db)
    /\ UNCHANGED <<df, call>>
    /\ UNCHANGED session_state

\* end of a pitcher group: the entry of stats['players_processed']
EndGroup ==
    /\ pc = "date"
    /\ loop.dates = <<>>
    /\ LET g == Head(loop.groups)
       IN  stats' = [stats EXCEPT !.players_processed =
                        Append(@, [name |-> g.name, player_id |-> loop.player_id,
                                   pitches |-> Len(g.idx), sessions |-> loop.ndates,
                                   external_id |-> loop.external_id])]
    /\ loop' = [loop EXCEPT !.groups = Tail(@)]
    /\ pc' = "group"
    /\ UNCHANGED <<df, db, call, ret>>
    /\ UNCHANGED session_state

\* conn.close(), the summary message and "return True, summary, stats"
Finish ==
    /\ \/ pc = "group" /\ loop.groups = <<>>
       \/ pc = "close"
    /\ pc' = "done"
    /\ UNCHANGED <<df, db, stats, loop, call, ret>>
    /\ UNCHANGED session_state

\* the "Process and Upload" button of the page in single player mode: the
\* session is created for the player selected, then process_csv is called
ProcessSingle ==
    /\ pc = "page"
    /\ \E p \in DOMAIN db.players, session_date \in {1, Today}, conn_ok \in BOOLEAN,
          data_source \in {df.vendor, "Manual"} :
          LET session == create_training_session(db.sessions, db.players[p].player_id,
                                                 session_date, DataSources[data_source],
                                                 Len(df.rows))
          IN  /\ db' = Commit([db EXCEPT !.sessions = Append(@, session)])
              /\ call' = [fn |-> "process_csv", bulk_mode |-> FALSE,
                          auto_create_players |-> FALSE,
                          data_source_name |-> data_source,
                          data_source_id |-> DataSources[data_source],
                          players_list |-> <<>>, db_rejects |-> {}]
              /\ IF ~conn_ok
                 THEN pc' = "failed" /\ UNCHANGED <<stats, loop>>
                 ELSE /\ pc' = "row"
                      /\ stats' = NoStats
                      /\ loop' = [groups |-> <<>>, dates |-> <<>>,
                                  rows |-> [i \in DOMAIN df.rows |-> i],
                                  player_id |-> session.player_id,
                                  session_id |-> session.session_id,
                                  given |-> Len(df.rows),
                                  pstats |-> ZeroStats]
    /\ UNCHANGED <<df, ret>>
    /\ UNCHANGED session_state

Next ==
    \/ ProcessBulk
    \/ NextGroup
    \/ NextDate
    \/ ProcessRow
    \/ EndPitcherData
    \/ EndGroup
    \/ Finish
    \/ ProcessSingle

Spec == Init /\ [][Next]_vars

------------------------------------------------------------------------------
(* process_pitcher_data called on its own: a frame of up to MaxBatchRows     *)
(* rows, each either mappable or raising in validation, for a session that   *)
(* exists; for the short frames the store may also reject any of the INSERTs *)

BatchRow(v) == ("Velocity" :> v)

InitRows ==
    /\ \E r \in SeqsUpTo({BatchRow(v) : v \in SpeedCells}, MaxBatchRows) :
         \E rejects \in (IF Len(r) <= MaxRows THEN SUBSET (1..Len(r)) ELSE {{}}) :
            /\ df = [vendor |-> "Rapsodo", columns |-> {"Velocity"}, rows |-> r]
            /\ call = [fn |-> "process_pitcher_data", data_source_name |-> "Rapsodo",
                       data_source_id |-> DataSources["Rapsodo"], db_rejects |-> rejects]
            /\ loop = [groups |-> <<>>, dates |-> <<>>, rows |-> [i \in 1..Len(r) |-> i],
                       player_id |-> 1, session_id |-> 1, given |-> Len(r),
                       pstats |-> ZeroStats]
            /\ db = [players |-> Roster,
                     sessions |-> << create_training_session(<<>>, 1, Today,
                                                             DataSources["Rapsodo"], Len(r)) >>,
                     pitches |-> <<>>, committed |-> 0]
    /\ stats = NoStats
    /\ ret = <<>>
    /\ pc = "row"
    /\ session_state = NoSession

NextRows ==
    \/ ProcessRow
    \/ EndPitcherData

SpecRows == InitRows /\ [][NextRows]_vars

------------------------------------------------------------------------------
(* Claims about process_csv and the upload page *)

BulkDone == pc = "done" /\ call.bulk_mode
UploadDone == pc = "done"

\* the pitcher names of the file, the rows and the calendar dates of a name
FileNames == {PitcherCell(df.rows[i], PitcherCol(df.columns)).val : i \in DOMAIN df.rows}
RowsOf(n) == {i \in DOMAIN df.rows : PitcherCell(df.rows[i], PitcherCol(df.columns)) = Str(n)}
DatesOf(n) == IF "Date" \in df.columns THEN {df.rows[i]["Date"].num : i \in RowsOf(n)}
              ELSE {Today}
FirstRowOf(n) == df.rows[CHOOSE i \in RowsOf(n) : \A j \in RowsOf(n) : i <= j]

\* the roster player a name matches (NoId when none), the players the run
\* created for a name, and the player a name resolved to
MatchedId(n) ==
    match_player_name(n, call.players_list,
                      extract_external_id(FirstRowOf(n), call.data_source_name),
                      call.data_source_name)[1]
CreatedFor(n) ==
    {k \in (Len(call.players_list) + 1)..Len(db.players) :
        <<db.players[k].first_name, db.players[k].last_name>> = ParseName(n)}
PlayerOf(n) ==
    IF MatchedId(n) # NoId THEN MatchedId(n)
    ELSE IF CreatedFor(n) # {} THEN db.players[CHOOSE k \in CreatedFor(n) : TRUE].player_id
    ELSE NoId
ResolvedPairs == UNION {{<<n, d>> : d \in DatesOf(n)} : n \in {m \in FileNames : PlayerOf(m) # NoId}}

\* whether row i raises in mapping, validation or insert
Raises(i) ==
    \/ validate_pitch_data(MapFields(call.data_source_name, df.rows[i])).raised
    \/ i \in call.db_rejects

\* C4: when a bulk run of process_csv has finished, the sessions it created are
\* one for each pair (pitcher-name group that resolved to a player, distinct
\* date among the rows of the group): sessions_created and the number of
\* session records equal the number of such pairs, and for every player and
\* date there are as many sessions as pairs of that player and date; a group
\* that resolved to no player contributes no pair, hence no session.
C4_OneSessionPerGroupAndDate ==
    BulkDone =>
        /\ stats.sessions_created = Cardinality(ResolvedPairs)
        /\ Len(db.sessions) = Cardinality(ResolvedPairs)
        /\ \A pr \in ResolvedPairs :
              Cardinality({k \in DOMAIN db.sessions :
                              /\ db.sessions[k].player_id = PlayerOf(pr[1])
                              /\ db.sessions[k].session_date = pr[2]})
              = Cardinality({q \in ResolvedPairs :
                              PlayerOf(q[1]) = PlayerOf(pr[1]) /\ q[2] = pr[2]})

\* two pitchers (one of the roster, one created) with two dates each: 4 sessions
C4_Witness ==
    /\ BulkDone
    /\ Cardinality({n \in FileNames : PlayerOf(n) # NoId}) = 2
    /\ Cardinality({PlayerOf(n) : n \in FileNames}) = 2
    /\ \A n \in FileNames : Cardinality(DatesOf(n)) = 2
    /\ stats.sessions_created = 4

\* C5: in every state of an upload, bulk or single, every pitch record carries
\* the session_id of an existing session, the player_id of that session, whose
\* player exists, and the data_source_id of that session.
C5_PitchMatchesItsSession ==
    \A k \in DOMAIN db.pitches :
        \E j \in DOMAIN db.sessions :
            /\ db.sessions[j].session_id = db.pitches[k].session_id
            /\ db.sessions[j].player_id = db.pitches[k].player_id
            /\ db.sessions[j].data_source_id = db.pitches[k].data_source_id
            /\ \E p \in DOMAIN db.players : db.players[p].player_id = db.sessions[j].player_id

\* pitches of two sessions that belong to two different players
C5_Witness ==
    \E a, b \in DOMAIN db.pitches :
        /\ db.pitches[a].session_id # db.pitches[b].session_id
        /\ db.pitches[a].player_id # db.pitches[b].player_id

\* C7: a bulk run with auto-create over a file whose rows all carry one name
\* that matches no roster player, on one date, no row raising and the creation
\* of the player not failing, ends with 1 player created, 1 session created,
\* every row inserted and none skipped; the hand of the new player is R when
\* the file has no arm-slot column, else L exactly when, among the first five
\* rows, strictly more arm slots are in [210, 330] than in [30, 150].
C7_OneUnmatchedPitcher ==
    ( /\ BulkDone
      /\ call.auto_create_players
      /\ Cardinality(FileNames) = 1
      /\ \A n \in FileNames :
            /\ MatchedId(n) = NoId
            /\ Cardinality(DatesOf(n)) = 1
            /\ \A e \in DOMAIN stats.errors :
                  stats.errors[e] # NameError("Failed to create player", n)
      /\ \A i \in DOMAIN df.rows : ~Raises(i) )
    => /\ stats.players_created = 1
       /\ Len(db.players) = Len(call.players_list) + 1
       /\ stats.sessions_created = 1
       /\ Len(db.sessions) = 1
       /\ stats.inserted = Len(df.rows)
       /\ Len(db.pitches) = Len(df.rows)
       /\ stats.skipped = 0
       /\ LET slots(lo, hi) == {i \in DOMAIN df.rows : /\ i <= 5
                                                        /\ df.rows[i]["Arm Slot"].num >= lo
                                                        /\ df.rows[i]["Arm Slot"].num <= hi}
          IN  db.players[Len(db.players)].throws_hand =
                 IF "Arm Slot" \notin df.columns THEN "R"
                 ELSE IF Cardinality(slots(210, 330)) > Cardinality(slots(30, 150)) THEN "L"
                 ELSE "R"

\* three Rapsodo rows of the unmatched pitcher on one date, all inserted
C7_Witness ==
    /\ BulkDone
    /\ call.auto_create_players
    /\ df.vendor = "Rapsodo"
    /\ Len(df.rows) = 3
    /\ FileNames = {<<"z">>}
    /\ Cardinality(DatesOf(<<"z">>)) = 1
    /\ stats.players_created = 1
    /\ stats.inserted = 3
    /\ db.players[Len(db.players)].throws_hand = "R"

\* C8: after a bulk run of process_csv no two sessions of the run have the same
\* player and the same date.
C8_OneSessionPerPlayerAndDate ==
    BulkDone =>
        \A j, k \in DOMAIN db.sessions :
            (/\ db.sessions[j].player_id = db.sessions[k].player_id
             /\ db.sessions[j].session_date = db.sessions[k].session_date) => j = k

\* C9: once an upload has finished, the total_pitches of every session equals
\* the number of pitch records that reference the session.
C9_TotalPitchesIsPitchCount ==
    UploadDone =>
        \A j \in DOMAIN db.sessions :
            db.sessions[j].total_pitches
            = Cardinality({k \in DOMAIN db.pitches :
                              db.pitches[k].session_id = db.sessions[j].session_id})

------------------------------------------------------------------------------
(* Claims about process_pitcher_data *)

NotRaises(i) == ~Raises(i)

\* the rows of the frame that the loop has been through, in order
RowsDone == [i \in 1..(loop.given - Len(loop.rows)) |-> i]

\* a raising row is counted as skipped and does not stop the loop: the rows
\* that do not raise are the pitches inserted, in order, and on return all rows
\* have been through the loop and inserted + skipped is their number
RowIsolation ==
    /\ loop.pstats.skipped = Len(SelectSeq(RowsDone, Raises))
    /\ loop.pstats.inserted = Len(SelectSeq(RowsDone, NotRaises))
    /\ [k \in DOMAIN db.pitches |-> db.pitches[k].row] = SelectSeq(RowsDone, NotRaises)
    /\ pc = "returned" =>
          /\ Len(RowsDone) = Len(df.rows)
          /\ ret = loop.pstats
          /\ ret.inserted + ret.skipped = Len(df.rows)

\* C6 as stated: a row of process_pitcher_data that raises is counted as
\* skipped and logged with its row index, and does not stop the loop; each row
\* that does not raise is inserted and inserted + skipped is the number of rows.
C6_EveryFailureLogged ==
    /\ RowIsolation
    /\ loop.pstats.errors = [k \in DOMAIN SelectSeq(RowsDone, Raises) |->
                                RowError(SelectSeq(RowsDone, Raises)[k])]

\* C6: a row of process_pitcher_data that raises is counted as skipped and
\* does not stop the loop, and is logged with its row index only while the log
\* holds fewer than 10 entries: the log is the first 10 raising rows; each row
\* that does not raise is inserted and inserted + skipped is the number of rows.
C6_FirstTenFailuresLogged ==
    /\ RowIsolation
    /\ loop.pstats.errors = [k \in DOMAIN HeadN(SelectSeq(RowsDone, Raises), 10) |->
                                RowError(SelectSeq(RowsDone, Raises)[k])]

\* eleven rows raise, ten are logged, and the row after them is inserted
C6_Witness ==
    /\ pc = "returned"
    /\ ret.skipped = 11
    /\ Len(ret.errors) = 10
    /\ ret.inserted = 1
    /\ Raises(11)
    /\ db.pitches[1].row = 12

------------------------------------------------------------------------------
(* process_pitcher_data on a frame of one Rapsodo row that carries the four  *)
(* measurements the validator scores                                         *)

MeasuredRow(v, s, a, h) ==
    ("Velocity" :> v) @@ ("SpinRate" :> s) @@ ("SpinAxis" :> a) @@ ("RelHeight" :> h)

InitStore ==
    /\ \E v \in VelocityPool, s \in SpinRatePool, a \in SpinAxisPool, h \in ReleaseHeightPool :
          df = [vendor |-> "Rapsodo",
                columns |-> {"Velocity", "SpinRate", "SpinAxis", "RelHeight"},
                rows |-> <<MeasuredRow(v, s, a, h)>>]
    /\ call = [fn |-> "process_pitcher_data", data_source_name |-> "Rapsodo",
               data_source_id |-> DataSources["Rapsodo"], db_rejects |-> {}]
    /\ loop = [groups |-> <<>>, dates |-> <<>>, rows |-> <<1>>,
               player_id |-> 1, session_id |-> 1, given |-> 1, pstats |-> ZeroStats]
    /\ db = [players |-> Roster,
             sessions |-> << create_training_session(<<>>, 1, Today, DataSources["Rapsodo"], 1) >>,
             pitches |-> <<>>, committed |-> 0]
    /\ stats = NoStats
    /\ ret = <<>>
    /\ pc = "row"
    /\ session_state = NoSession

SpecStore == InitStore /\ [][NextRows]_vars

\* C11: a pitch is stored with is_valid_pitch = true exactly when the penalties
\* of the rules it violates sum to at most 0.5 (score at least 0.5): one 0.3
\* rule and one 0.2 rule give a valid pitch, both 0.3 rules an invalid one.
C11_ValidIffPenaltiesAtMostHalf ==
    \A k \in DOMAIN db.pitches :
        db.pitches[k].is_valid_pitch
        <=> PenaltyTenths(MapFields(call.data_source_name, df.rows[db.pitches[k].row])) <= 5

------------------------------------------------------------------------------
(* tilt_to_degrees and determine_handedness_from_arm_slot on their own: the  *)
(* clock strings "H:MM" with H up to MaxClockHour and MM up to               *)
(* MaxClockMinute, written as str.format writes them, the whole degrees from *)
(* -MaxDegrees to MaxDegrees, and texts that are not clock strings           *)

MaxClockHour == 13
MaxClockMinute == 99
MaxDegrees == 720

\* f"{h}:{m:02d}"
ClockText(h, m) == Decimal(h) \o <<":">> \o (IF m < 10 THEN <<"0">> ELSE <<>>) \o Decimal(m)

ClockPool == {Str(ClockText(h, m)) : h \in 0..MaxClockHour, m \in 0..MaxClockMinute}
DegreePool == {Num(n) : n \in (-MaxDegrees)..MaxDegrees}
OtherTilts ==
    << Absent, NaN, Str(<<>>), Str(<<" ">>), Str(<<"x">>), Str(<<"1", ":">>), Str(<<":", "3", "0">>),
      Str(<<"1", ":", "3", "x">>), Str(<<" ", "1", ":", "3", "0", " ">>),
      Str(<<"1", ":", "3", "0", ":", "0", "0">>), Str(<<"1", ":", "5">>),
      Str(<<"9", "0">>), Str(<<"-", "9", "0">>), Str(<<"1", ".", "5">>),
      Str(<<"1", ":", "-", "3", "0">>), Str(<<"-", "1", ":", "3", "0">>),
      Str(<<"1", ".", "5", ":", "3", "0">>), Str(<<"1", " ", ":", " ", "3", "0">>),
      NumHalf(149), NumHalf(150), NumHalf(-151) >>

InitTilt ==
    /\ \E f \in {"tilt_to_degrees", "determine_handedness_from_arm_slot"} :
          \/ \E v \in ClockPool : call = [fn |-> f, value |-> v]
          \/ \E v \in DegreePool : call = [fn |-> f, value |-> v]
          \/ \E i \in DOMAIN OtherTilts : call = [fn |-> f, value |-> OtherTilts[i]]
    /\ ret = <<>>
    /\ pc = "call"
    /\ df = NoFile /\ db = EmptyDb /\ stats = NoStats /\ loop = NoLoop
    /\ session_state = NoSession

CallTilt ==
    /\ pc = "call"
    /\ call.fn = "tilt_to_degrees"
    /\ ret' = tilt_to_degrees(call.value)
    /\ pc' = "returned"
    /\ UNCHANGED <<call, df, db, stats, loop>>
    /\ UNCHANGED session_state

CallHandedness ==
    /\ pc = "call"
    /\ call.fn = "determine_handedness_from_arm_slot"
    /\ ret' = determine_handedness_from_arm_slot(call.value)
    /\ pc' = "returned"
    /\ UNCHANGED <<call, df, db, stats, loop>>
    /\ UNCHANGED session_state

NextTilt ==
    \/ CallTilt
    \/ CallHandedness

SpecTilt == InitTilt /\ [][NextTilt]_vars

\* equality of two cells
SameCell(a, b) == a.kind = b.kind /\ DOMAIN a = DOMAIN b /\ a = b

\* C12: for a clock string "H:MM", in range (H in 0..11, MM in 0..59) or out
\* of range (up to 13:99), tilt_to_degrees returns
\* ((H mod 12) * 30 + MM / 2) mod 360, which is in [0, 360).
C12_ClockStringDegrees ==
    (pc = "returned" /\ call.fn = "tilt_to_degrees") =>
        \A h \in 0..MaxClockHour, m \in 0..MaxClockMinute :
            SameCell(call.value, Str(ClockText(h, m))) =>
                /\ ret.kind = "num"
                /\ Twice(ret) = (((h % 12) * 30) * 2 + m) % (2 * 360)
                /\ 0 <= Twice(ret) /\ Twice(ret) < 2 * 360

\* "13:99" has given 79.5
C12_Witness ==
    /\ pc = "returned"
    /\ call.fn = "tilt_to_degrees"
    /\ SameCell(call.value, Str(<<"1", "3", ":", "9", "9">>))
    /\ SameCell(ret, NumHalf(79))

HandednessReturned == pc = "returned" /\ call.fn = "determine_handedness_from_arm_slot"

\* position of a clock time in the order of the clock
ClockOrder(h, m) == 60 * h + m

------------------------------------------------------------------------------
(* standardize_pitch_type *)

LowerLetters == <<"a", "b", "c", "d", "e", "f", "g", "h", "i", "j", "k", "l", "m", "n", "o", "p", "q", "r", "s", "t", "u", "v", "w", "x", "y", "z">>
UpperLetters == <<"A", "B", "C", "D", "E", "F", "G", "H", "I", "J", "K", "L", "M", "N", "O", "P", "Q", "R", "S", "T", "U", "V", "W", "X", "Y", "Z">>

\* str.upper() of one character
UpperChar(c) ==
    IF \E i \in DOMAIN LowerLetters : LowerLetters[i] = c
    THEN UpperLetters[CHOOSE i \in DOMAIN LowerLetters : LowerLetters[i] = c]
    ELSE c

Upper(t) == [i \in 1..Len(t) |-> UpperChar(t[i])]

\* t.replace(' ', '')
IsNotSpace(c) == c # " "
RemoveSpaces(t) == SelectSeq(t, IsNotSpace)

\* PITCH_TYPE_MAP: the pairs (key, value)
PITCH_TYPE_MAP ==
    { <<<<"F", "F">>, <<"4", "F", "B">>>>,
      <<<<"F", "A">>, <<"4", "F", "B">>>>,
      <<<<"4", "-", "S", "E", "A", "M">>, <<"4", "F", "B">>>>,
      <<<<"F", "A", "S", "T", "B", "A", "L", "L">>, <<"4", "F", "B">>>>,
      <<<<"4", "F", "B">>, <<"4", "F", "B">>>>,
      <<<<"4", "S", "E", "A", "M">>, <<"4", "F", "B">>>>,
      <<<<"F", "T">>, <<"2", "F", "B">>>>,
      <<<<"S", "I">>, <<"S", "I">>>>,
      <<<<"2", "-", "S", "E", "A", "M">>, <<"2", "F", "B">>>>,
      <<<<"2", "F", "B">>, <<"2", "F", "B">>>>,
      <<<<"S", "I", "N", "K", "E", "R">>, <<"S", "I">>>>,
      <<<<"2", "S", "E", "A", "M">>, <<"2", "F", "B">>>>,
      <<<<"F", "C">>, <<"C", "T">>>>,
      <<<<"C", "U", "T", "T", "E", "R">>, <<"C", "T">>>>,
      <<<<"C", "T">>, <<"C", "T">>>>,
      <<<<"C", "U">>, <<"C", "B">>>>,
      <<<<"C", "U", "R", "V", "E">>, <<"C", "B">>>>,
      <<<<"C", "U", "R", "V", "E", "B", "A", "L", "L">>, <<"C", "B">>>>,
      <<<<"C", "B">>, <<"C", "B">>>>,
      <<<<"S", "L">>, <<"S", "L">>>>,
      <<<<"S", "L", "I", "D", "E", "R">>, <<"S", "L">>>>,
      <<<<"C", "H">>, <<"C", "H">>>>,
      <<<<"C", "H", "A", "N", "G", "E", "U", "P">>, <<"C", "H">>>>,
      <<<<"C", "H", "A", "N", "G", "E">>, <<"C", "H">>>>,
      <<<<"F", "S">>, <<"S", "P", "L">>>>,
      <<<<"S", "P", "L", "I", "T">>, <<"S", "P", "L">>>>,
      <<<<"S", "P", "L", "I", "T", "T", "E", "R">>, <<"S", "P", "L">>>>,
      <<<<"S", "P", "L">>, <<"S", "P", "L">>>>,
      <<<<"K", "N">>, <<"K", "N">>>>,
      <<<<"K", "N", "U", "C", "K", "L", "E", "B", "A", "L", "L">>, <<"K", "N">>>>,
      <<<<"S", "B">>, <<"S", "B">>>>,
      <<<<"S", "C", "R", "E", "W", "B", "A", "L", "L">>, <<"S", "B">>>> }

PitchTypeKeys == {kv[1] : kv \in PITCH_TYPE_MAP}

\* PITCH_TYPE_MAP.get(code, default)
MapGet(code, default) ==
    IF code \in PitchTypeKeys THEN (CHOOSE kv \in PITCH_TYPE_MAP : kv[1] = code)[2] ELSE default

\* str(pitch_type) of a cell that is not null
CellText(v) == IF v.kind = "num" THEN Decimal(v.num) ELSE v.val

standardize_pitch_type_Reject(pitch_type) ==
    IF ~NotNa(pitch_type) \/ (pitch_type.kind = "str" /\ pitch_type.val = <<>>) THEN Absent
    ELSE LET code == RemoveSpaces(Upper(Strip(CellText(pitch_type))))
         IN  IF code \in PitchTypeKeys THEN Str(MapGet(code, code)) ELSE Absent

\* returns None (Absent) or the text of the canonical or passed-through code
standardize_pitch_type(pitch_type) ==
    IF ~NotNa(pitch_type) \/ (pitch_type.kind = "str" /\ pitch_type.val = <<>>) THEN Absent
    ELSE LET code == RemoveSpaces(Upper(Strip(CellText(pitch_type))))
         IN  Str(MapGet(code, code))

\* the codes handed to standardize_pitch_type: every key of the table as it
\* is, in lower case, and with spaces around and inside; codes that are not in
\* the table; the empty text, texts of spaces, a number and the nulls
LowerOf(t) ==
    [i \in 1..Len(t) |->
        IF \E k \in DOMAIN UpperLetters : UpperLetters[k] = t[i]
        THEN LowerLetters[CHOOSE k \in DOMAIN UpperLetters : UpperLetters[k] = t[i]]
        ELSE t[i]]
Spaced(t) == <<" ", t[1], " ">> \o Tail(t) \o <<" ">>
UnknownCodes ==
    { <<"X", "Y">>, <<"x", "y">>, <<"S", "w">>, <<" ", "E", "P">>, <<"4", "F">>, <<"S", " ", "W">>,
      <<"?">>, <<>>, <<" ">>, <<" ", " ">>, <<"5">> }
PitchTypeTexts ==
    PitchTypeKeys \cup {LowerOf(k) : k \in PitchTypeKeys} \cup {Spaced(k) : k \in PitchTypeKeys}
    \cup UnknownCodes

InitPitchType ==
    /\ \/ \E t \in PitchTypeTexts : call = [fn |-> "standardize_pitch_type", pitch_type |-> Str(t)]
       \/ \E v \in {Absent, NaN} : call = [fn |-> "standardize_pitch_type", pitch_type |-> v]
       \/ call = [fn |-> "standardize_pitch_type", pitch_type |-> Num(5)]
    /\ ret = <<>>
    /\ pc = "call"
    /\ df = NoFile /\ db = EmptyDb /\ stats = NoStats /\ loop = NoLoop
    /\ session_state = NoSession

\* standardize_pitch_type(pitch_type)
CallStandardize ==
    /\ pc = "call"
    /\ ret' = <<standardize_pitch_type(call.pitch_type)>>
    /\ pc' = "returned"
    /\ UNCHANGED <<call, df, db, stats, loop>>
    /\ UNCHANGED session_state

\* standardize_pitch_type applied to the value it returned
CallStandardizeAgain ==
    /\ pc = "returned"
    /\ ret' = Append(ret, standardize_pitch_type(ret[1]))
    /\ pc' = "twice"
    /\ UNCHANGED <<call, df, db, stats, loop>>
    /\ UNCHANGED session_state

NextPitchType ==
    \/ CallStandardize
    \/ CallStandardizeAgain

SpecPitchType == InitPitchType /\ [][NextPitchType]_vars

\* C13: standardize_pitch_type is idempotent: applied to its own result, for
\* every input (synonym, canonical code, unknown code, empty or null), it
\* returns that result again.
C13_Idempotent ==
    pc = "twice" => SameCell(ret[2], ret[1])

\* C14 as stated: for a non-empty code that is not in the synonym table the
\* result is the input text as it was given.
C14_UnknownCodeAsGiven ==
    (/\ pc = "returned"
     /\ call.pitch_type.kind = "str"
     /\ call.pitch_type.val # <<>>
     /\ RemoveSpaces(Upper(call.pitch_type.val)) \notin PitchTypeKeys)
    => SameCell(ret[1], call.pitch_type)

\* C14: for a non-empty code that is not in the synonym table, also after its
\* spaces are removed and its letters put in upper case, the result is not
\* rejected: it is the input text with its spaces removed and its letters in
\* upper case, hence the input text itself when this has no space and no lower
\* case letter.
C14_UnknownCodeNormalized ==
    (/\ pc = "returned"
     /\ call.pitch_type.kind = "str"
     /\ call.pitch_type.val # <<>>
     /\ RemoveSpaces(Upper(call.pitch_type.val)) \notin PitchTypeKeys)
    => /\ ret[1].kind = "str"
       /\ Len(ret[1].val) = Len(SelectSeq(call.pitch_type.val, IsNotSpace))
       /\ \A i \in DOMAIN ret[1].val :
             ret[1].val[i] = UpperChar(SelectSeq(call.pitch_type.val, IsNotSpace)[i])
       /\ ((\A i \in DOMAIN call.pitch_type.val :
               call.pitch_type.val[i] # " " /\ UpperChar(call.pitch_type.val[i]) = call.pitch_type.val[i])
           => SameCell(ret[1], call.pitch_type))

\* the unknown code "Sw" has come back as "SW"
C14_Witness ==
    /\ pc = "returned"
    /\ SameCell(call.pitch_type, Str(<<"S", "w">>))
    /\ SameCell(ret[1], Str(<<"S", "W">>))

------------------------------------------------------------------------------
(* create_player_from_name on its own: a frame of up to MaxSamples rows with *)
(* an arm-slot column whose values the classifier decides as R or L, leaves  *)
(* undecided, or that are null; or a frame without an arm-slot column        *)

MaxSamples == 7

\* the arm slots of the frames and what the classifier makes of each
ArmSlotSamples == << Str(<<"3", ":", "0", "0">>), Num(270), Num(0), NaN, Num(450), Str(<<"x">>) >>
SampleVotes == << "R", "L", "none", "null", "R", "none" >>

InitCreate ==
    /\ \/ \E k \in 0..MaxSamples :
            \E samples \in [1..k -> 1..4] \cup [1..(IF k < 3 THEN k ELSE 0) -> DOMAIN ArmSlotSamples] :
               call = [fn |-> "create_player_from_name", pitcher_name |-> <<"z">>,
                       columns |-> {"Arm Slot"}, samples |-> samples,
                       pitcher_rows |-> [i \in 1..Len(samples) |->
                                            ("Arm Slot" :> ArmSlotSamples[samples[i]])]]
       \/ \E k \in 0..MaxSamples :
            call = [fn |-> "create_player_from_name", pitcher_name |-> <<"z">>,
                    columns |-> {"Velocity"}, samples |-> <<>>,
                    pitcher_rows |-> [i \in 1..k |-> ("Velocity" :> Num(75))]]
    /\ db = [players |-> Roster, sessions |-> <<>>, pitches |-> <<>>, committed |-> 0]
    /\ ret = <<>>
    /\ pc = "call"
    /\ df = NoFile /\ stats = NoStats /\ loop = NoLoop
    /\ session_state = NoSession

\* create_player_from_name(conn, pitcher_name, None, None, pitcher_df)
CreatePlayer ==
    /\ pc = "call"
    /\ call.fn = "create_player_from_name"
    /\ LET new == NewPlayer(db.players, call.pitcher_name, NULL, NULL, call.columns,
                            call.pitcher_rows)
       IN  /\ db' = [db EXCEPT !.players = Append(@, new)]
           /\ ret' = <<new.player_id>>
    /\ pc' = "returned"
    /\ UNCHANGED <<call, df, stats, loop>>
    /\ UNCHANGED session_state

NextCreate == CreatePlayer

SpecCreate == InitCreate /\ [][NextCreate]_vars

\* the positions of the first five values of the column that are not null
FirstFive ==
    {i \in DOMAIN call.samples :
        /\ SampleVotes[call.samples[i]] # "null"
        /\ Cardinality({j \in 1..(i - 1) : SampleVotes[call.samples[j]] # "null"}) < 5}

------------------------------------------------------------------------------
(* detect_data_source.  Here the headers of the file are texts, in the       *)
(* order of the file: df.columns is a sequence of up to MaxHeaders of them.  *)

MaxHeaders == 3

\* ' '.join(columns)
RECURSIVE JoinTexts(_)
JoinTexts(ts) ==
    IF ts = <<>> THEN <<>>
    ELSE IF Len(ts) = 1 THEN ts[1]
    ELSE SpaceJoin(ts[1], JoinTexts(Tail(ts)))

\* any(ind in columns_joined for ind in indicators)
AnyIn(indicators, columns_joined) == \E ind \in indicators : IsSubstr(ind, columns_joined)

rapsodo_indicators == {<<"r", "e", "l", "s", "p", "e", "e", "d">>, <<"i", "n", "d", "u", "c", "e", "d", "v", "e", "r", "t", "b", "r", "e", "a", "k">>, <<"t", "i", "l", "t">>}
pitchlogic_indicators == {<<"a", "r", "m", " ", "s", "l", "o", "t">>, <<"a", "r", "m", "s", "l", "o", "t">>, <<"r", "i", "f", "l", "e", " ", "s", "p", "i", "n">>, <<"g", "y", "r", "o">>}
trackman_indicators == {<<"v", "e", "r", "t", "r", "e", "a", "n", "g", "l", "e">>, <<"h", "o", "r", "z", "r", "e", "a", "n", "g", "l", "e">>, <<"p", "i", "t", "c", "h", "c", "a", "l", "l">>, <<"z", "o", "n", "e", "s", "p", "e", "e", "d">>}

detect_data_source_ByCount(columns) ==
    LET columns_joined == JoinTexts([i \in DOMAIN columns |-> Strip(LowerOf(columns[i]))])
        n(inds) == Cardinality({ind \in inds : IsSubstr(ind, columns_joined)})
    IN  IF n(rapsodo_indicators) > 0 /\ n(rapsodo_indicators) >= n(pitchlogic_indicators) THEN "Rapsodo"
        ELSE IF n(pitchlogic_indicators) > 0 THEN "PitchLogic"
        ELSE IF n(trackman_indicators) > 0 THEN "Trackman"
        ELSE "Unknown"

detect_data_source(columns) ==
    LET columns_joined == JoinTexts([i \in DOMAIN columns |-> Strip(LowerOf(columns[i]))])
    IN  IF AnyIn(rapsodo_indicators, columns_joined) THEN "Rapsodo"
        ELSE IF AnyIn(pitchlogic_indicators, columns_joined) THEN "PitchLogic"
        ELSE IF AnyIn(trackman_indicators, columns_joined) THEN "Trackman"
        ELSE "Unknown"

\* the headers of the files, and for each the vendors of which it holds an
\* indicator
HeaderPool ==
    << <<"R", "e", "l", "S", "p", "e", "e", "d">>,
       <<"T", "i", "l", "t">>,
       <<"I", "n", "d", "u", "c", "e", "d", "V", "e", "r", "t", "B", "r", "e", "a", "k">>,
       <<"A", "r", "m", " ", "S", "l", "o", "t">>,
       <<"A", "r", "m", "S", "l", "o", "t", " ", "(", "y", "e", "l", "l", "o", "w", ")">>,
       <<"R", "i", "f", "l", "e", " ", "S", "p", "i", "n", " ", "(", "r", "p", "m", ")">>,
       <<"G", "y", "r", "o">>,
       <<"V", "e", "r", "t", "R", "e", "A", "n", "g", "l", "e">>,
       <<"P", "i", "t", "c", "h", "C", "a", "l", "l">>,
       <<"Z", "o", "n", "e", "S", "p", "e", "e", "d">>,
       <<"H", "o", "r", "z", "R", "e", "A", "n", "g", "l", "e">>,
       <<"V", "e", "l", "o", "c", "i", "t", "y">>,
       <<"A", "r", "m">>,
       <<"S", "l", "o", "t">>,
       <<" ", "T", "I", "L", "T", " ">>,
       <<"S", "p", "i", "n", " ", "T", "i", "l", "t", " ", "G", "y", "r", "o">> >>
HeaderVendors ==
    << {"Rapsodo"}, {"Rapsodo"}, {"Rapsodo"}, {"PitchLogic"}, {"PitchLogic"}, {"PitchLogic"}, {"PitchLogic"}, {"Trackman"}, {"Trackman"}, {"Trackman"}, {"Trackman"}, {}, {}, {}, {"Rapsodo"}, {"Rapsodo", "PitchLogic"} >>

InitDetect ==
    /\ \E k \in 0..MaxHeaders :
          \E hs \in [1..k -> DOMAIN HeaderPool] :
             /\ df = [columns |-> [i \in 1..k |-> HeaderPool[hs[i]]], rows |-> <<>>]
             /\ call = [fn |-> "detect_data_source", headers |-> hs]
    /\ ret = <<>>
    /\ pc = "call"
    /\ db = EmptyDb /\ stats = NoStats /\ loop = NoLoop
    /\ session_state = NoSession

\* detect_data_source(df)
CallDetect ==
    /\ pc = "call"
    /\ call.fn = "detect_data_source"
    /\ ret' = <<detect_data_source(df.columns)>>
    /\ pc' = "returned"
    /\ UNCHANGED <<call, df, db, stats, loop>>
    /\ UNCHANGED session_state

NextDetect == CallDetect

SpecDetect == InitDetect /\ [][NextDetect]_vars

\* the vendors of which the headers of the call hold an indicator: in one
\* header, or across the space that joins the headers "Arm" and "Slot"
ArmThenSlot ==
    \E i \in DOMAIN call.headers :
       /\ i + 1 \in DOMAIN call.headers
       /\ HeaderPool[call.headers[i]] = <<"A", "r", "m">>
       /\ HeaderPool[call.headers[i + 1]] = <<"S", "l", "o", "t">>
Indicated(vendor) ==
    \/ \E i \in DOMAIN call.headers : vendor \in HeaderVendors[call.headers[i]]
    \/ vendor = "PitchLogic" /\ ArmThenSlot
FirstIndicated ==
    IF Indicated("Rapsodo") THEN "Rapsodo"
    ELSE IF Indicated("PitchLogic") THEN "PitchLogic"
    ELSE IF Indicated("Trackman") THEN "Trackman"
    ELSE "Unknown"

\* C17: detect_data_source returns the first vendor, in the order Rapsodo,
\* PitchLogic, Trackman, of which an indicator occurs in the lower-cased
\* headers, and Unknown when there is none; headers with indicators of several
\* vendors are classified by this order, not by the number of indicators
\* matched; the call leaves the frame as it was.
C17_FirstVendorInCheckOrder ==
    /\ [](pc = "returned" /\ call.fn = "detect_data_source" => ret[1] = FirstIndicated)
    /\ [][call.fn = "detect_data_source" => df' = df]_vars

\* one Rapsodo indicator against two of PitchLogic
C17_Witness ==
    /\ pc = "returned"
    /\ call.fn = "detect_data_source"
    /\ Cardinality({i \in DOMAIN call.headers : "PitchLogic" \in HeaderVendors[call.headers[i]]}) = 2
    /\ Cardinality({i \in DOMAIN call.headers : "Rapsodo" \in HeaderVendors[call.headers[i]]}) = 1
    /\ ret[1] = "Rapsodo"

------------------------------------------------------------------------------
(* detect_bulk_mode.  The frame is the one of process_csv: its columns and   *)
(* its rows; the call may add a column to it.                                *)

MaxBulkRows == 3

\* df[col].nunique(): the number of distinct values of a column, nulls left out
nunique(rows, col) ==
    Cardinality({RowGet(rows[i], col).val :
                    i \in {j \in DOMAIN rows : NotNa(RowGet(rows[j], col))}})

\* df['_temp_full_name'] = df['First Name'].astype(str) + ' ' + df['Last Name'].astype(str)
WithTempFullName(frame) ==
    [columns |-> frame.columns \cup {"_temp_full_name"},
     rows |-> [i \in DOMAIN frame.rows |->
                  [c \in (DOMAIN frame.rows[i]) \cup {"_temp_full_name"} |->
                      IF c = "_temp_full_name"
                      THEN Str(SpaceJoin(AsText(RowGet(frame.rows[i], "First Name")),
                                         AsText(RowGet(frame.rows[i], "Last Name"))))
                      ELSE frame.rows[i][c]]]]

\* the pair returned for a count
BulkPair(unique_pitchers) == <<unique_pitchers > 1, unique_pitchers>>

\* the pair returned, and the frame after the call
detect_bulk_mode(frame, data_source) ==
    IF data_source = "PitchLogic"
       /\ ("Pitcher Name" \in frame.columns \/ "Pitcher" \in frame.columns)
    THEN LET pitcher_col == IF "Pitcher Name" \in frame.columns THEN "Pitcher Name" ELSE "Pitcher"
         IN  [ret |-> BulkPair(nunique(frame.rows, pitcher_col)), df |-> frame]
    ELSE IF data_source = "PitchLogic"
            /\ "First Name" \in frame.columns /\ "Last Name" \in frame.columns
    THEN LET named == WithTempFullName(frame)
         IN  [ret |-> BulkPair(nunique(named.rows, "_temp_full_name")), df |-> named]
    ELSE IF data_source = "Rapsodo" /\ "Pitcher" \in frame.columns
    THEN [ret |-> BulkPair(nunique(frame.rows, "Pitcher")), df |-> frame]
    ELSE [ret |-> <<FALSE, 1>>, df |-> frame]

\* the vendors detect_data_source returns
DetectedVendors == {"Rapsodo", "PitchLogic", "Trackman", "Unknown"}

\* the name columns of the files, and the cells they hold
NameColumns ==
    { {}, {"Pitcher"}, {"Pitcher Name"}, {"Pitcher Name", "Pitcher"},
      {"First Name", "Last Name"}, {"First Name"}, {"Pitcher", "First Name", "Last Name"} }
NameCells == << Str(<<"s">>), Str(<<"z">>), NaN >>

InitBulkMode ==
    /\ \E cols \in NameColumns, k \in 0..MaxBulkRows :
          \E cells \in [1..k -> [cols -> DOMAIN NameCells]] :
             df = [columns |-> cols \cup {"Velocity"},
                   rows |-> [i \in 1..k |->
                               [c \in cols \cup {"Velocity"} |->
                                   IF c = "Velocity" THEN Num(75) ELSE NameCells[cells[i][c]]]]]
    /\ \E data_source \in DetectedVendors :
          call = [fn |-> "detect_bulk_mode", data_source |-> data_source]
    /\ ret = <<>>
    /\ pc = "call"
    /\ db = EmptyDb /\ stats = NoStats /\ loop = NoLoop
    /\ session_state = NoSession

\* is_bulk, num_players = detect_bulk_mode(df, detected_source)
CallBulkMode ==
    /\ pc = "call"
    /\ call.fn = "detect_bulk_mode"
    /\ LET out == detect_bulk_mode(df, call.data_source)
       IN  /\ ret' = out.ret
           /\ df' = out.df
    /\ pc' = "returned"
    /\ UNCHANGED <<call, db, stats, loop>>
    /\ UNCHANGED session_state

NextBulkMode == CallBulkMode

SpecBulkMode == InitBulkMode /\ [][NextBulkMode]_vars

\* the pitcher column process_csv groups the file by, and the pitchers it
\* names: the distinct non-null values, a first and last name counting when
\* one of the two is given
FileIdentities ==
    LET col == PitcherCol(df.columns)
        named == {i \in DOMAIN df.rows :
                     IF col = "_pitcher_full_name"
                     THEN NotNa(RowGet(df.rows[i], "First Name")) \/ NotNa(RowGet(df.rows[i], "Last Name"))
                     ELSE NotNa(RowGet(df.rows[i], col))}
    IN  {PitcherCell(df.rows[i], col).val : i \in named}

\* C18: detect_bulk_mode returns (n > 1, n), n the number of distinct non-null
\* pitchers in the pitcher column of the file, whatever the vendor, and
\* (false, 1) when the file has no pitcher column.
C18_CountsDistinctPitchers ==
    pc = "returned" /\ call.fn = "detect_bulk_mode" =>
        IF PitcherCol(df.columns) = NULL THEN ret = <<FALSE, 1>>
        ELSE ret = <<Cardinality(FileIdentities) > 1, Cardinality(FileIdentities)>>

------------------------------------------------------------------------------
(* The vendor mappers on one row.  The row holds the source columns of one   *)
(* canonical field, each missing or holding a cell.                          *)

\* the canonical fields stored from the mappers' records
CanonicalFields == {"release_speed", "spin_rate", "spin_axis", "release_height", "arm_slot"}

\* the columns a mapper reads a field from, in the order it reads them
SourceColumns(data_source, field) ==
    CASE data_source = "PitchLogic" /\ field = "release_speed" -> <<"Velo", "Speed", "Speed (mph)">>
      [] data_source = "PitchLogic" /\ field = "spin_rate" ->
            <<"Spin", "SpinRate", "Spin Rate", "Total Spin (rpm)">>
      [] data_source = "PitchLogic" /\ field = "spin_axis" ->
            <<"Axis", "SpinAxis", "Spin Axis", "Spin Direction (blue)">>
      [] data_source = "PitchLogic" /\ field = "release_height" -> <<"RH", "Release Height">>
      [] data_source = "PitchLogic" /\ field = "arm_slot" -> <<"ArmSlot", "Arm Slot", "Arm Slot (yellow)">>
      [] data_source = "Rapsodo" /\ field = "release_speed" -> <<"Velocity", "RelSpeed">>
      [] data_source = "Trackman" /\ field = "release_speed" -> <<"RelSpeed">>
      [] data_source # "PitchLogic" /\ field = "spin_rate" -> <<"SpinRate">>
      [] data_source # "PitchLogic" /\ field = "spin_axis" -> <<"SpinAxis", "Tilt">>
      [] data_source # "PitchLogic" /\ field = "release_height" -> <<"RelHeight">>
      [] OTHER -> <<>>

\* the fields read as a chain of aliases, a or b or ...
IsAliased(data_source, field) ==
    /\ Len(SourceColumns(data_source, field)) > 1
    /\ ~(data_source # "PitchLogic" /\ field = "spin_axis")

\* the fields converted by tilt_to_degrees
IsTiltField(data_source, field) ==
    data_source = "PitchLogic" /\ field \in {"spin_axis", "arm_slot"}

\* the cells of a row: an empty cell, a measured zero, two measurements and a
\* clock text
MapCells == << NaN, Num(0), Num(75), Num(80), Str(<<"1", ":", "3", "0">>) >>

InitMap ==
    /\ \E data_source \in {"Rapsodo", "PitchLogic", "Trackman"}, field \in CanonicalFields :
          LET cols == SourceColumns(data_source, field)
          IN  \E pick \in [DOMAIN cols -> 0..Len(MapCells)] :
                 call = [fn |-> "map_fields", data_source |-> data_source, field |-> field,
                         row |-> [c \in {cols[i] : i \in {j \in DOMAIN cols : pick[j] # 0}} |->
                                     MapCells[pick[CHOOSE i \in DOMAIN cols : cols[i] = c]]]]
    /\ ret = <<>>
    /\ pc = "call"
    /\ df = NoFile /\ db = EmptyDb /\ stats = NoStats /\ loop = NoLoop
    /\ session_state = NoSession

\* pitch_data = map_<vendor>_fields(row)
CallMapper ==
    /\ pc = "call"
    /\ call.fn = "map_fields"
    /\ ret' = <<MapFields(call.data_source, call.row)>>
    /\ pc' = "returned"
    /\ UNCHANGED <<call, df, db, stats, loop>>
    /\ UNCHANGED session_state

NextMap == CallMapper

SpecMap == InitMap /\ [][NextMap]_vars

\* the call has returned; the value of its field
Mapped == pc = "returned" /\ call.fn = "map_fields"
MappedValue == ret[1][call.field]
CallColumns == SourceColumns(call.data_source, call.field)

\* C19: a field whose source columns are all absent from the row maps to no
\* value, and a row whose one source column of the field holds a measured zero
\* maps to zero, not to no value.
C19_ZeroIsNotAbsent ==
    Mapped =>
        /\ (DOMAIN call.row = {} => MappedValue = Absent)
        /\ \A c \in DOMAIN call.row :
              DOMAIN call.row = {c} /\ SameCell(call.row[c], Num(0)) => SameCell(MappedValue, Num(0))

\* the first alias of the field, in the listed order, that is present in the
\* row and not null; 0 when there is none
FirstPresent ==
    LET present == {i \in DOMAIN CallColumns :
                       CallColumns[i] \in DOMAIN call.row /\ NotNa(call.row[CallColumns[i]])}
    IN  IF present = {} THEN 0 ELSE CHOOSE i \in present : \A j \in present : i <= j

\* C20: a field read from several alias columns gets the value of the first
\* alias, in the listed order, that is present in the row and not null (through
\* the tilt conversion for the clock fields).
C20_FirstPresentNonNullAlias ==
    Mapped /\ IsAliased(call.data_source, call.field) /\ FirstPresent # 0 =>
        LET first == call.row[CallColumns[FirstPresent]]
        IN  SameCell(MappedValue,
                     IF IsTiltField(call.data_source, call.field) THEN tilt_to_degrees(first) ELSE first)

------------------------------------------------------------------------------
(* process_csv called with any arguments: the connection opens or not, the   *)
(* data-source name is in the registry or not, bulk mode is on or off.  The  *)
(* files name the pitchers "n" and "t" (no roster player) and "s" (the       *)
(* roster's A S); a pitcher cell and a date cell may be empty.               *)

MaxCsvRows == 2

\* the source_id the SELECT on data_sources returns, NoId when it returns no row
SourceId(data_source_name) ==
    IF data_source_name \in DOMAIN DataSources THEN DataSources[data_source_name] ELSE NoId

process_csv_entry_NoRegistry(conn_ok, data_source_name, bulk_mode, columns) ==
    IF ~conn_ok THEN "Database connection failed"
    ELSE IF bulk_mode /\ PitcherCol(columns) = NULL THEN "no pitcher column found"
    ELSE NULL

\* the early returns of process_csv: the message returned with False, NULL when
\* the function goes on
process_csv_entry(conn_ok, data_source_name, bulk_mode, columns) ==
    IF ~conn_ok THEN "Database connection failed"
    ELSE IF SourceId(data_source_name) = NoId THEN "Data source not found"
    ELSE IF bulk_mode /\ PitcherCol(columns) = NULL THEN "no pitcher column found"
    ELSE NULL

CsvPitchers == {Str(<<"n">>), Str(<<"s">>), Str(<<"t">>), NaN}
CsvDates == {Num(1), NaN}
CsvRows ==
    {("Pitcher" :> n) @@ ("Date" :> d) @@ ("Velocity" :> v) :
        n \in CsvPitchers, d \in CsvDates, v \in SpeedCells}
CsvRowsNoDate == {("Pitcher" :> n) @@ ("Velocity" :> v) : n \in CsvPitchers, v \in SpeedCells}
CsvRowsNoPitcher == {("Velocity" :> v) : v \in SpeedCells}
CsvFiles ==
    { [vendor |-> "Rapsodo", columns |-> {"Pitcher", "Date", "Velocity"}, rows |-> r] :
        r \in SeqsUpTo(CsvRows, MaxCsvRows) }
    \cup { [vendor |-> "Rapsodo", columns |-> {"Pitcher", "Velocity"}, rows |-> r] :
        r \in SeqsUpTo(CsvRowsNoDate, MaxCsvRows) }
    \cup { [vendor |-> "Rapsodo", columns |-> {"Velocity"}, rows |-> r] :
        r \in SeqsUpTo(CsvRowsNoPitcher, MaxCsvRows) }

\* the store before the call: the roster, and the session of player 1 that a
\* single-player upload is made for
CsvDb ==
    [players |-> Roster,
     sessions |-> << create_training_session(<<>>, 1, Today, DataSources["Rapsodo"], 0) >>,
     pitches |-> <<>>, committed |-> 0]

InitCsv ==
    /\ df \in CsvFiles
    /\ db = CsvDb
    /\ \E conn_ok \in BOOLEAN, bulk_mode \in BOOLEAN, auto_create \in BOOLEAN,
          data_source_name \in {"Rapsodo", "Unknown"} :
          call = [fn |-> "process_csv", conn_ok |-> conn_ok, bulk_mode |-> bulk_mode,
                  auto_create_players |-> auto_create,
                  data_source_name |-> data_source_name, data_source_id |-> NoId,
                  player_id |-> 1, session_id |-> 1,
                  players_list |-> Roster, db_rejects |-> {}]
    /\ stats = NoStats
    /\ loop = NoLoop
    /\ ret = <<>>
    /\ pc = "call"
    /\ session_state = NoSession

\* process_csv from its first line to the top of the loop over the pitcher
\* groups (bulk) or to the call of process_pitcher_data (single)
CallProcessCsv ==
    /\ pc = "call"
    /\ call.fn = "process_csv"
    /\ LET failure == process_csv_entry(call.conn_ok, call.data_source_name,
                                        call.bulk_mode, df.columns)
       IN  IF failure # NULL
           THEN /\ pc' = "failed"
                /\ ret' = <<FALSE, failure>>
                /\ UNCHANGED <<call, stats, loop>>
           ELSE /\ call' = [call EXCEPT !.data_source_id = SourceId(call.data_source_name)]
                /\ stats' = NoStats
                /\ ret' = ret
                /\ IF call.bulk_mode
                   THEN /\ pc' = "group"
                        /\ loop' = [NoLoop EXCEPT
                                       !.groups = GroupByPitcher(df.rows, PitcherCol(df.columns))]
                   ELSE /\ pc' = "row"
                        /\ loop' = [groups |-> <<>>, dates |-> <<>>,
                                    rows |-> [i \in DOMAIN df.rows |-> i],
                                    player_id |-> call.player_id,
                                    session_id |-> call.session_id,
                                    given |-> Len(df.rows),
                                    pstats |-> ZeroStats]
    /\ UNCHANGED <<df, db>>
    /\ UNCHANGED session_state

NextCsv ==
    \/ CallProcessCsv
    \/ NextGroup
    \/ NextDate
    \/ ProcessRow
    \/ EndPitcherData
    \/ EndGroup
    \/ Finish

SpecCsv == InitCsv /\ [][NextCsv]_vars

\* an entry of the error list with a given message
Logged(msg) == \E i \in DOMAIN stats.errors : stats.errors[i].msg = msg
BulkCall == call.fn = "process_csv" /\ call.bulk_mode
SameTables(a, b) == a.players = b.players /\ a.sessions = b.sessions /\ a.pitches = b.pitches

\* C21: in a bulk upload, once create_player_from_name has failed for a pitcher
\* group, no further player, session or pitch is created and process_csv does
\* not return success.
C21_CreateFailureIsFatal ==
    [][BulkCall /\ Logged("Failed to create player") => SameTables(db', db) /\ pc' # "done"]_vars

\* the file has none of the pitcher columns
NoPitcherColumn ==
    /\ df.columns \cap {"Pitcher Name", "Pitcher", "pitcher", "pitcher_name"} = {}
    /\ ~({"First Name", "Last Name"} \subseteq df.columns)
EntryFailure ==
    \/ ~call.conn_ok
    \/ call.data_source_name \notin {"Rapsodo", "PitchLogic", "Trackman", "Manual"}
    \/ call.bulk_mode /\ NoPitcherColumn

\* C22: when the connection cannot be opened, the data-source name is not in
\* the registry, or bulk mode is on and the file has no pitcher column,
\* process_csv returns failure and the store is as it was before the call.
C22_EarlyFailureChangesNothing ==
    call.fn = "process_csv" /\ pc # "call" /\ EntryFailure =>
        pc = "failed" /\ ret[1] = FALSE /\ db = CsvDb

\* a bulk call on a file of two rows without a pitcher column has failed
C22_Witness ==
    /\ call.fn = "process_csv" /\ pc = "failed"
    /\ call.conn_ok /\ call.data_source_name = "Rapsodo"
    /\ call.bulk_mode /\ NoPitcherColumn
    /\ Len(df.rows) = 2
    /\ db = CsvDb

\* the rows of the file that name one of a set of pitchers; the rows that get
\* a session date; the rows whose speed is a number
UnmatchedNames == {<<"n">>, <<"t">>}
RowsNamed(names) ==
    {i \in DOMAIN df.rows :
        LET c == RowGet(df.rows[i], "Pitcher") IN c.kind = "str" /\ c.val \in names}
Dated(i) == "Date" \notin df.columns \/ NotNa(df.rows[i]["Date"])
Measured(i) == df.rows[i]["Velocity"].kind = "num"
BulkWithoutCreate == BulkCall /\ ~call.auto_create_players /\ pc # "call" /\ ~EntryFailure

\* C23: in bulk mode without auto-create a pitcher group that matches no roster
\* player is skipped as a group: no player and no session is created for it,
\* its rows are added to the skipped count, an advisory is logged, the other
\* groups are processed and the run returns success.
C23_UnmatchedGroupSkipped ==
    BulkWithoutCreate =>
        /\ pc # "failed"
        /\ db.players = Roster
        /\ \A k \in DOMAIN db.sessions : db.sessions[k].player_id = 1
        /\ pc = "done" =>
              /\ \A u \in UnmatchedNames :
                    RowsNamed({u}) # {} =>
                        /\ \E i \in DOMAIN stats.errors :
                              stats.errors[i].msg = "Skipped player" /\ stats.errors[i].name = u
                        /\ \A k \in DOMAIN db.pitches : db.pitches[k].row \notin RowsNamed({u})
                        /\ \A k \in DOMAIN stats.players_processed :
                              stats.players_processed[k].name # u
              /\ stats.skipped = Cardinality(RowsNamed(UnmatchedNames))
                                 + Cardinality({i \in RowsNamed({<<"s">>}) : Dated(i) /\ ~Measured(i)})
              /\ Len(db.sessions) = Len(CsvDb.sessions)
                                    + (IF \E i \in RowsNamed({<<"s">>}) : Dated(i) THEN 1 ELSE 0)
              /\ {db.pitches[k].row : k \in DOMAIN db.pitches}
                    = {i \in RowsNamed({<<"s">>}) : Dated(i) /\ Measured(i)}

\* the group of "n" was skipped and the later group of "s" got its pitch
C23_Witness ==
    /\ BulkWithoutCreate /\ pc = "done"
    /\ Len(df.rows) = 2
    /\ RowsNamed({<<"n">>}) = {1} /\ RowsNamed({<<"s">>}) = {2}
    /\ stats.skipped = 1 /\ stats.inserted = 1
    /\ Len(db.pitches) = 1 /\ db.pitches[1].row = 2

------------------------------------------------------------------------------
(* process_csv on long files: the rows of pitcher "s" on date 1 followed by  *)
(* his rows on date 2, each run of rows starting with the rows whose speed   *)
(* is a number and ending with the rows that fail.                           *)

MaxLogRows == 6

LogRows(d, n, good) ==
    [i \in 1..n |-> RapsodoRow(<<"s">>, d, IF i <= good THEN Num(75) ELSE BadText)]
LogFiles ==
    { [vendor |-> "Rapsodo", columns |-> {"Pitcher", "Date", "Velocity"},
       rows |-> LogRows(1, x[1], x[2]) \o LogRows(2, x[3], x[4])] :
        x \in {y \in (0..MaxLogRows) \X (0..MaxLogRows) \X (0..MaxLogRows) \X (0..MaxLogRows) :
                  y[2] <= y[1] /\ y[4] <= y[3]} }

InitLog ==
    /\ df \in LogFiles
    /\ db = CsvDb
    /\ \E bulk_mode \in BOOLEAN :
          call = [fn |-> "process_csv", conn_ok |-> TRUE, bulk_mode |-> bulk_mode,
                  auto_create_players |-> FALSE,
                  data_source_name |-> "Rapsodo", data_source_id |-> NoId,
                  player_id |-> 1, session_id |-> 1,
                  players_list |-> Roster, db_rejects |-> {}]
    /\ stats = NoStats
    /\ loop = NoLoop
    /\ ret = <<>>
    /\ pc = "call"
    /\ session_state = NoSession

SpecLog == InitLog /\ [][NextCsv]_vars

\* the row-level entries of an error list
RowEntries(errors) == {i \in DOMAIN errors : errors[i].msg = "Row"}
FailingRows == {i \in DOMAIN df.rows : ~Measured(i)}

\* C24: in every state of a process_csv run the error log holds at most 10
\* row-level entries, and the skipped counter counts every failing row.
C24_LogAtMostTenRowErrors ==
    call.fn = "process_csv" =>
        /\ Cardinality(RowEntries(stats.errors)) <= 10
        /\ pc = "done" => stats.skipped = Cardinality(FailingRows)

\* C25: during a bulk upload every INSERT issued for an earlier row is committed
\* while a later row is being processed.
C25_EachInsertCommitted ==
    BulkCall /\ pc = "row" /\ loop.rows # <<>> => db.committed = Len(db.pitches)

------------------------------------------------------------------------------
(* Further claims about match_player_name (checked under SpecMatch) *)

\* the first of the four name rules that a roster position satisfies, "" for none
MethodOf(i) ==
    LET p == call.players_list[i]
        n == Lower(Strip(call.pitcher_name))
        f == Lower(p.first_name)
        l == Lower(p.last_name)
        full == f \o <<" ">> \o l
    IN  IF n = full THEN "Exact Name"
        ELSE IF n = l THEN "Last Name"
        ELSE IF n = l \o <<" ">> \o f THEN "Name (Reversed)"
        ELSE IF IsSubstr(l, n) \/ IsSubstr(n, full) THEN "Partial Match"
        ELSE ""
ConfidenceOf(method) ==
    CASE method \in {"Exact Name", "Name (Reversed)"} -> "High"
      [] method = "Last Name" -> "Medium"
      [] method = "Partial Match" -> "Low"
RuleMatched == {i \in DOMAIN call.players_list : MethodOf(i) # ""}
RosterIds == {call.players_list[i].player_id : i \in DOMAIN call.players_list}

C27_IdScanComesFirst ==
    MatchReturned /\ IdHolders # {} =>
        /\ ret[1] \in {call.players_list[i].player_id : i \in IdHolders}
        /\ ret[2].method = "External ID"

\* C28: whenever a bulk run of process_csv returns success, inserted + skipped
\* is the number of rows of the file.
C28_EveryRowAccountedFor ==
    BulkCall /\ pc = "done" => stats.inserted + stats.skipped = Len(df.rows)

------------------------------------------------------------------------------
(* The upload page: main() is run again after every event of the page, and   *)
(* what it draws depends on st.session_state only.  pc = "page" is the page   *)
(* drawn and waiting for an event; the two Process buttons call process_csv,  *)
(* whose steps are the actions above, and the page goes on when it returns.   *)

MaxPageRows == 2          \* rows of a file uploaded on the page
MaxPageSessions == 2      \* the Process buttons are pressed while the store
                          \* holds fewer sessions than this

PageFileNames == {"a.csv", "b.csv"}
PageRows == {RapsodoRow(n, 1, Num(75)) : n \in {<<"s">>, <<"t">>}}
PageFiles ==
    { [vendor |-> "Rapsodo", columns |-> {"Pitcher", "Date", "Velocity"}, rows |-> r] :
        r \in SeqsUpTo(PageRows, MaxPageRows) }
    \cup { [vendor |-> "Unknown", columns |-> {"Velocity"},
            rows |-> << ("Velocity" :> Num(75)) >>] }

InitPage ==
    /\ session_state = NoSession
    /\ df = NoFile
    /\ db \in {EmptyDb, [EmptyDb EXCEPT !.players = Roster]}
    /\ call = [fn |-> "main"]
    /\ stats = NoStats
    /\ loop = NoLoop
    /\ ret = <<>>
    /\ pc = "page"

\* step 1: a file is chosen in the uploader; a file whose name is the one
\* already loaded is not read again
UploadFile ==
    /\ pc = "page"
    /\ ~session_state.upload_complete
    /\ \E name \in PageFileNames, f \in PageFiles, readable \in BOOLEAN :
          /\ session_state.uploaded_file # name
          /\ IF readable
             THEN /\ session_state' = [session_state EXCEPT !.uploaded_file = name,
                                                            !.upload_mode_selected = FALSE,
                                                            !.detected_source = f.vendor]
                  /\ df' = f
             ELSE /\ session_state' = [session_state EXCEPT !.uploaded_file = NULL,
                                                            !.upload_mode_selected = FALSE]
                  /\ df' = NoFile
    /\ UNCHANGED <<call, ret, pc, db, stats, loop>>

\* step 2: the Continue button, with the radio's choice when the file is a
\* bulk file
ContinueMode ==
    /\ pc = "page"
    /\ df # NoFile
    /\ ~session_state.upload_complete
    /\ LET detected == detect_bulk_mode(df, session_state.detected_source)
       IN  /\ \E bulk \in (IF detected.ret[1] THEN BOOLEAN ELSE {FALSE}) :
                 session_state' = [session_state EXCEPT !.bulk_mode = bulk,
                                                        !.upload_mode_selected = TRUE]
           /\ df' = detected.df
    /\ UNCHANGED <<call, ret, pc, db, stats, loop>>

\* the buttons of step 5 are drawn: main() has not returned before them
StepFiveShown ==
    /\ session_state.upload_mode_selected
    /\ ~session_state.upload_complete
    /\ IF session_state.bulk_mode THEN PitcherCol(df.columns) # NULL ELSE db.players # <<>>

\* the Cancel button of step 5, bulk or single
Cancel ==
    /\ pc = "page"
    /\ StepFiveShown
    /\ session_state' = [session_state EXCEPT !.upload_complete = TRUE]
    /\ UNCHANGED <<call, ret, pc, df, db, stats, loop>>

\* the "Process Bulk Upload" button, up to the call of process_csv
PressProcessBulk ==
    /\ pc = "page"
    /\ StepFiveShown
    /\ session_state.bulk_mode
    /\ Len(db.sessions) < MaxPageSessions
    /\ \E auto_create \in BOOLEAN, conn_ok \in BOOLEAN, data_source \in {"Rapsodo", "Manual"} :
          call' = [fn |-> "process_csv", conn_ok |-> conn_ok, bulk_mode |-> TRUE,
                   auto_create_players |-> auto_create,
                   data_source_name |-> data_source, data_source_id |-> NoId,
                   player_id |-> NoId, session_id |-> NoId,
                   players_list |-> db.players, db_rejects |-> {}]
    /\ pc' = "call"
    /\ stats' = NoStats /\ loop' = NoLoop /\ ret' = <<>>
    /\ UNCHANGED <<df, db, session_state>>

\* the "Process and Upload" button: the session is created for the player
\* selected, then process_csv is called
PressProcessSingle ==
    /\ pc = "page"
    /\ StepFiveShown
    /\ ~session_state.bulk_mode
    /\ Len(db.sessions) < MaxPageSessions
    /\ \E p \in DOMAIN db.players, conn_ok \in BOOLEAN, data_source \in {"Rapsodo", "Manual"} :
          LET session == create_training_session(db.sessions, db.players[p].player_id,
                                                 Today, DataSources[data_source],
                                                 Len(df.rows))
          IN  /\ db' = Commit([db EXCEPT !.sessions = Append(@, session)])
              /\ call' = [fn |-> "process_csv", conn_ok |-> conn_ok, bulk_mode |-> FALSE,
                          auto_create_players |-> FALSE,
                          data_source_name |-> data_source, data_source_id |-> NoId,
                          player_id |-> session.player_id,
                          session_id |-> session.session_id,
                          players_list |-> <<>>, db_rejects |-> {}]
    /\ pc' = "call"
    /\ stats' = NoStats /\ loop' = NoLoop /\ ret' = <<>>
    /\ UNCHANGED <<df, session_state>>

\* process_csv returned True: the summary is stored and the upload is complete
StoreSummary ==
    /\ pc = "done"
    /\ call.fn = "process_csv"
    /\ LET summary_data ==
              IF call.bulk_mode
              THEN [mode |-> "bulk", stats |-> stats]
              ELSE [mode |-> "single", stats |-> stats,
                    player_id |-> call.player_id, session_id |-> call.session_id]
       IN  session_state' = [session_state EXCEPT !.upload_summary = <<summary_data>>,
                                                  !.upload_complete = TRUE]
    /\ pc' = "page"
    /\ call' = [fn |-> "main"]
    /\ stats' = NoStats /\ loop' = NoLoop /\ ret' = <<>>
    /\ UNCHANGED <<df, db>>

\* process_csv returned False: st.error, and the page stays as it was
ShowFailure ==
    /\ pc = "failed"
    /\ call.fn = "process_csv"
    /\ pc' = "page"
    /\ call' = [fn |-> "main"]
    /\ stats' = NoStats /\ loop' = NoLoop /\ ret' = <<>>
    /\ UNCHANGED <<df, db, session_state>>

\* the summary block is entered
SummaryShown == session_state.upload_complete /\ session_state.upload_summary # <<>>

\* the keys the bulk summary reads from an entry of players_processed
SummaryReads == {"pitches", "session_id", "player_id"}

\* the bulk summary raises KeyError on an entry that lacks a key it reads
SummaryRaises ==
    /\ SummaryShown
    /\ LET summary == session_state.upload_summary[1]
       IN  /\ summary.mode = "bulk"
           /\ \E k \in DOMAIN summary.stats.players_processed :
                 ~(SummaryReads \subseteq DOMAIN summary.stats.players_processed[k])

\* the "Upload Another File" button, drawn at the end of the summary block
UploadAnother ==
    /\ pc = "page"
    /\ SummaryShown
    /\ ~SummaryRaises
    /\ session_state' = NoSession
    /\ df' = NoFile
    /\ UNCHANGED <<call, ret, pc, db, stats, loop>>

NextPage ==
    \/ UploadFile
    \/ ContinueMode
    \/ Cancel
    \/ PressProcessBulk
    \/ PressProcessSingle
    \/ CallProcessCsv
    \/ NextGroup
    \/ NextDate
    \/ ProcessRow
    \/ EndPitcherData
    \/ EndGroup
    \/ Finish
    \/ StoreSummary
    \/ ShowFailure
    \/ UploadAnother

SpecPage == InitPage /\ [][NextPage]_vars

\* what a drawn page offers
UploaderOffered == ~session_state.upload_complete
ResetOffered == SummaryShown /\ ~SummaryRaises

\* C29: every page the upload flow can draw offers the file uploader or the
\* "Upload Another File" reset, the page drawn after Cancel in step 5 included.
C29_PageNeverDeadEnds ==
    pc = "page" => UploaderOffered \/ ResetOffered

\* C30: whenever the summary of a successful bulk upload that processed at
\* least one player is shown, every entry of players_processed holds each key
\* the summary reads from it (pitches, session_id, player_id).
C30_SummaryKeysWritten ==
    (/\ SummaryShown
     /\ session_state.upload_summary[1].mode = "bulk"
     /\ session_state.upload_summary[1].stats.players_processed # <<>>)
    => \A k \in DOMAIN session_state.upload_summary[1].stats.players_processed :
          SummaryReads \subseteq DOMAIN session_state.upload_summary[1].stats.players_processed[k]

====
